---- MODULE Spec2Model ----
(***************************************************************************)
(* Library synchronisation, background thumbnail pipeline, preview cache   *)
(* and edit history of the video library (App component, dbService).       *)
(*                                                                         *)
(* A store request takes effect when it is issued (IndexedDB runs the      *)
(* transactions of overlapping scope in the order of their creation); the  *)
(* handler that awaits it resumes in a later step.                         *)
(***************************************************************************)
EXTENDS Integers, Sequences, FiniteSets, TLC

\* ------------------------------------------------------------------ bounds
NumPaths == 2            \* distinct relative paths a folder may hold
MaxScans == 3            \* folder selections in one behaviour of Spec
MaxSyncEdits == 1        \* user edits in one behaviour of Spec
MaxEdits == 3            \* edits, undos and redos in one behaviour of SpecHist
MaxOverlapScans == 2    \* folder selections made while runs may be under way
MaxRegenScans == 2      \* folder selections next to regenerations
MaxRegens == 1          \* regenerations requested
MaxStrips == 2          \* timeline strips generated
MaxTxFailures == 1      \* batch writes that fail
MaxListScans == 2       \* folder selections next to the playlist
MaxRecoverScans == 3    \* folder selections next to cancellations and new sessions
MaxResetScans == 2      \* folder selections next to the database reset
MaxResetEdits == 3
MaxTagEdits == 3         \* edits of tags, undos and redos in a run
MaxTagHistory == 1       \* history entries when tags are edited
MaxImports == 1         \* playlist files imported
MaxResets == 1          \* database resets
MaxCacheOps == 4         \* preview-cache operations in one behaviour
NumCacheKeys == 2        \* records whose strips are loaded anew
MaxPage == 2             \* pages of the grid

\* --------------------------------------------------------- program constants
maxSize == 150           \* capacity of scrubCache

\* ------------------------------------------------------------ value domains
Null == "null"            \* null, for the fields that hold strings
Undefined == "undefined"  \* undefined, for the fields that hold strings
NullNum == -1             \* null, for the fields that hold numbers
UndefinedNum == -2        \* undefined, for the fields that hold numbers

Paths == 1..NumPaths

\* file.name of each relative path, as its characters
FileName(p) ==
  CASE p = 1 -> <<"a", ".", "m", "p", "4">>
    [] p = 2 -> <<"b", ".", "J", "P", "G">>
    [] p = 3 -> <<"c", ".", "m", "k", "v">>
    [] p = 5 -> <<"a", ".", "m", "k", "v">>
    [] p = 6 -> <<"e", ".", "O", "G", "V">>
    [] OTHER -> <<"d">>

\* a File of the selected folder: what the pass reads of it
FileVersions ==
  { [size |-> 10, lastModified |-> 1],
    [size |-> 20, lastModified |-> 2] }

\* the non-empty folders the user may select: relativePath -> File
FileSets ==
  UNION { [ps -> FileVersions] : ps \in (SUBSET Paths) \ {{}} }

Images == {"img"}        \* what a successful primary-frame probe yields

DescGenerating == "Generating thumbnails..."
DescJpg == "JPG Image"
DescIncompatible == "Incompatible file format."
DescProbeFailed ==
  "Could not generate thumbnail. File may be corrupt or in an unsupported format."

\* ------------------------------------------------------------------- state
VARIABLES
  dbVideos,             \* object store 'videos': id -> stored metadata
  dbThumbs,             \* object store 'main_thumbnails': id -> image
  videos,               \* React state 'videos': id -> VideoData
  fileMapRef,           \* relativePath -> File of the granted folder
  isProcessing,
  cancelProcessingRef,
  processedCount,
  totalToProcess,
  isBatchEditMode,
  isFolderSelected,     \* the grid of cards is shown
  statusFilters,        \* filter -> "include" | "exclude"
  undoStack,
  redoStack,
  scrubCache,           \* the Map of the cache, in insertion order
  scanPc,               \* position of scanFiles
  existingVideos,       \* scanFiles: the records read at its start
  videosForThumbGen,    \* scanFiles: records handed to the pipeline
  scanLoaded,           \* scanFiles: what its loadLibraryFromDB has read
  pipe,                 \* the calls of processInBackground, one per pass
  nextId,               \* identifiers handed out so far (crypto.randomUUID)
  now,                  \* Date.now()
  scansLeft,            \* folder selections the behaviour may still make
  editsLeft,            \* edits, undos and redos it may still make
  nCacheOps,
  userMeta,             \* history: id -> user metadata last entered
  lastPass,             \* history: the last sync pass that wrote its plan
  beforeMissing,        \* history: id -> what a missing record held when marked
  commitLog,            \* history: the last commit and what followed it
  cacheLog,             \* history: accesses and evictions of the cache
  pipeLog,              \* history: the last probe result, the runs asked to stop
  dbTimeline,           \* object store 'timeline_thumbnails': id -> strip
  viewers,              \* the card and the player: their scrub state
  regen,                \* position of handleRegenerateThumbnails
  nextStrip,            \* strips generated so far
  regenLog,             \* history: the last regeneration request
  txLog,                \* history: the batch writes that failed
  playlist,             \* React state 'playlist': the identifiers, in order
  reset,                \* position of handleResetDatabase
  importLog,            \* history: the last playlist import
  tagLog,               \* history: the last tags applied on a card or in the player
  view,                 \* React states 'selectedTags', 'searchQuery', 'currentPage'
  editLog               \* history: the fields the last commit changed, while it is
                        \* the entry undo or redo would take

vars ==
  << dbVideos, dbThumbs, videos, fileMapRef, isProcessing,
     cancelProcessingRef, processedCount, totalToProcess, isBatchEditMode,
     isFolderSelected, statusFilters, undoStack, redoStack, scrubCache, scanPc,
     existingVideos, videosForThumbGen, scanLoaded, pipe,
     nextId, now, scansLeft, editsLeft, nCacheOps, userMeta, lastPass,
     beforeMissing, commitLog, cacheLog, pipeLog, dbTimeline, viewers, regen,
     nextStrip, regenLog, txLog, playlist, reset, importLog, tagLog, view,
     editLog >>

storeVars == << dbVideos, dbThumbs >>
uiVars == << isBatchEditMode, isFolderSelected, statusFilters >>
syncHist == << lastPass, beforeMissing, txLog >>
histVars == << undoStack, redoStack >>
progressVars == << isProcessing, cancelProcessingRef, processedCount, totalToProcess >>
scanVars == << scanPc, existingVideos, videosForThumbGen, scanLoaded >>
cacheVars == << scrubCache, nCacheOps, cacheLog >>
clockVars == << nextId, now >>
previewVars == << dbTimeline, viewers, regen, nextStrip, regenLog >>
listVars == << playlist, reset, importLog, tagLog, view, editLog >>

\* ------------------------------------------------------------- JS helpers
\* a || b, by the type of a
OrNum(a, b) == IF a \in {0, NullNum, UndefinedNum} THEN b ELSE a
OrBool(a, b) == IF a = FALSE THEN b ELSE a

Range(s) == { s[i] : i \in 1..Len(s) }

Lower(c) ==
  CASE c = "J" -> "j"
    [] c = "P" -> "p"
    [] c = "G" -> "g"
    [] c = "O" -> "o"
    [] c = "V" -> "v"
    [] OTHER -> c

\* String.prototype.toLowerCase
toLowerCase(s) == [i \in 1..Len(s) |-> Lower(s[i])]

\* String.prototype.endsWith
endsWith(s, suffix) ==
  /\ Len(suffix) <= Len(s)
  /\ SubSeq(s, Len(s) - Len(suffix) + 1, Len(s)) = suffix

\* String.prototype.includes for a single character
includes(s, c) == \E i \in 1..Len(s) : s[i] = c

playableExtensions == { <<".", "m", "p", "4">>, <<".", "o", "g", "v">> }

isJpgName(name) == endsWith(toLowerCase(name), <<".", "j", "p", "g">>)

\* a variant that takes a name without an extension as not playable
isNativelyPlayableByExtension(name) ==
  \E ext \in playableExtensions : endsWith(toLowerCase(name), ext)

isNativelyPlayable(name) ==
  \/ \E ext \in playableExtensions : endsWith(toLowerCase(name), ext)
  \/ ~includes(name, ".")

\* ------------------------------------------------------------ the store
\* const { thumbnail, ...videoMetadata } = video
videoMetadata(video) ==
  [f \in (DOMAIN video) \ {"thumbnail"} |-> video[f]]

\* applyVideoDefaults: the record as getAllVideos returns it
applyVideoDefaults(meta) ==
  [f \in (DOMAIN meta) \cup {"thumbnail"} |->
     IF f = "thumbnail" THEN Null
     ELSE IF f = "timesOpened" THEN OrNum(meta.timesOpened, 0)
     ELSE IF f = "dateAdded" THEN OrNum(meta.dateAdded, OrNum(meta.lastModified, 0))
     ELSE IF f = "hearted" THEN OrBool(meta.hearted, FALSE)
     ELSE IF f = "hidden" THEN OrBool(meta.hidden, FALSE)
     ELSE IF f = "notFound" THEN OrBool(meta.notFound, FALSE)
     ELSE meta[f]]

\* a variant that leaves out the records marked not found
getAllVideosFound(store) ==
  [id \in { i \in DOMAIN store : store[i].notFound # TRUE } |-> applyVideoDefaults(store[id])]

\* dbService.getAllVideos
getAllVideos(store) == [id \in DOMAIN store |-> applyVideoDefaults(store[id])]

\* a variant that removes the records written with the deleted flag set
batchUpdateVideosPurging(store, vs) ==
  LET written == { vs[i].id : i \in 1..Len(vs) }
      purged == { vs[i].id : i \in { j \in 1..Len(vs) : vs[j].deleted = TRUE } }
      last(id) == CHOOSE i \in 1..Len(vs) :
                    vs[i].id = id /\ \A j \in (i+1)..Len(vs) : vs[j].id # id
  IN  [id \in ((DOMAIN store) \cup written) \ purged |->
         IF id \in written THEN videoMetadata(vs[last(id)]) ELSE store[id]]

\* dbService.batchUpdateVideos: put the metadata of every record
RECURSIVE batchUpdateVideos(_, _)
batchUpdateVideos(store, vs) ==
  IF vs = << >> THEN store
  ELSE LET v == Head(vs)
           put == [id \in (DOMAIN store) \cup {v.id} |->
                     IF id = v.id THEN videoMetadata(v) ELSE store[id]]
       IN  batchUpdateVideos(put, Tail(vs))

\* a variant in which the puts made before the failing one are kept
batchUpdateVideosPartial(store, vs, failAt) ==
  IF failAt \in 1..Len(vs)
  THEN [ store |-> batchUpdateVideos(store, SubSeq(vs, 1, failAt - 1)), rejected |-> TRUE ]
  ELSE [ store |-> batchUpdateVideos(store, vs), rejected |-> FALSE ]

\* dbService.batchUpdateVideos when the put of record failAt fails (0: none
\* does): the puts are requests of one transaction, the error of a request
\* aborts it and reaches tx.onerror, which rejects the promise
batchUpdateVideosTx(store, vs, failAt) ==
  IF failAt \in 1..Len(vs)
  THEN [ store |-> store, rejected |-> TRUE ]
  ELSE [ store |-> batchUpdateVideos(store, vs), rejected |-> FALSE ]

\* dbService.upsertVideo on the 'videos' store
upsertVideo(store, v) == batchUpdateVideos(store, << v >>)

\* a variant that puts the thumbnail whatever it is: null clears the entry
upsertThumbAlways(thumbs, v) ==
  IF v.thumbnail # Null
  THEN [id \in (DOMAIN thumbs) \cup {v.id} |->
          IF id = v.id THEN v.thumbnail ELSE thumbs[id]]
  ELSE [id \in (DOMAIN thumbs) \ {v.id} |-> thumbs[id]]

\* dbService.upsertVideo on the 'main_thumbnails' store
upsertThumb(thumbs, v) ==
  IF v.thumbnail # Null
  THEN [id \in (DOMAIN thumbs) \cup {v.id} |->
          IF id = v.id THEN v.thumbnail ELSE thumbs[id]]
  ELSE thumbs

\* ------------------------------------------------------------ scanFiles
\* existingVideosMap.get(relativePath): << >> when there is none
\* a variant that finds no record for any path
existingVideoForNone(existing, p) == << >>

\* existingVideosMap.get(relativePath)
existingVideoFor(existing, p) ==
  LET ids == { id \in DOMAIN existing : existing[id].relativePath = p }
  IN  IF ids = {} THEN << >> ELSE << existing[CHOOSE id \in ids : TRUE] >>

\* a variant that never takes an unchanged record to lack its thumbnail
needsRepairNever(changed, isPlayable, hasThumbnail) == FALSE

\* the second branch of loop 1: an unchanged, playable record without a
\* persisted thumbnail
needsRepair(changed, isPlayable, hasThumbnail) ==
  ~changed /\ isPlayable /\ ~hasThumbnail

\* the body of loop 1 for one file: the record to write (if any) and
\* whether it goes to the pipeline
scanEntry(p, file, existing, thumbs, freshId, t) ==
  LET ex == existingVideoFor(existing, p)
      has == ex # << >>
      existingVideo == ex[1]
      isJpg == isJpgName(FileName(p))
      isPlayable == isNativelyPlayable(FileName(p))
      newDuration == IF has THEN OrNum(existingVideo.duration, NullNum) ELSE NullNum
      changed == \/ ~has
                 \/ existingVideo.lastModified # file.lastModified
                 \/ existingVideo.notFound
      noThumb == needsRepair(changed, isPlayable,
                             has /\ existingVideo.id \in DOMAIN thumbs)
      needsUpdate == changed \/ noThumb
      needsThumbProcessing == (changed /\ isPlayable) \/ noThumb
      videoData ==
        [ id |-> IF has THEN existingVideo.id ELSE freshId,
          relativePath |-> p,
          rating |-> IF has THEN OrNum(existingVideo.rating, 0) ELSE 0,
          seen |-> IF has THEN OrBool(existingVideo.seen, FALSE) ELSE FALSE,
          tags |-> IF has THEN existingVideo.tags ELSE << >>,
          fileSize |-> file.size,
          duration |-> newDuration,
          lastModified |-> file.lastModified,
          dateAdded |-> IF has THEN OrNum(existingVideo.dateAdded, t) ELSE t,
          timesOpened |-> IF has THEN OrNum(existingVideo.timesOpened, 0) ELSE 0,
          hearted |-> IF has THEN OrBool(existingVideo.hearted, FALSE) ELSE FALSE,
          hidden |-> IF has THEN OrBool(existingVideo.hidden, isJpg) ELSE isJpg,
          deleted |-> IF has THEN OrBool(existingVideo.deleted, FALSE) ELSE FALSE,
          title |-> IF has THEN existingVideo.title ELSE Undefined,
          currentTime |-> IF has THEN existingVideo.currentTime ELSE UndefinedNum,
          isPlayable |-> isPlayable,
          notFound |-> FALSE,
          description |-> IF isPlayable THEN DescGenerating
                          ELSE IF isJpg THEN DescJpg ELSE DescIncompatible,
          thumbnail |-> Null ]
      durationOnly ==
        /\ ~needsUpdate
        /\ existingVideo.duration # newDuration
        /\ newDuration # NullNum
  IN  [ update |-> IF needsUpdate THEN << videoData >>
                   ELSE IF durationOnly
                        THEN << [existingVideo EXCEPT !.duration = newDuration,
                                                      !.notFound = FALSE] >>
                        ELSE << >>,
        thumbGen |-> IF needsUpdate /\ needsThumbProcessing
                     THEN << videoData >> ELSE << >>,
        usedId |-> ~has ]

\* fileEntries, in the order of the file list
SortedSeq(S) ==
  LET n == Cardinality(S)
  IN  [i \in 1..n |-> CHOOSE x \in S : Cardinality({y \in S : y < x}) = i - 1]

\* loop 1 (found files) over the entries ps
RECURSIVE scanFound(_, _, _, _, _, _)
scanFound(ps, files, existing, thumbs, freshId, t) ==
  IF ps = << >>
  THEN [ batch |-> << >>, thumbGen |-> << >>, nextId |-> freshId ]
  ELSE LET e == scanEntry(Head(ps), files[Head(ps)], existing, thumbs, freshId, t)
           rest == scanFound(Tail(ps), files, existing, thumbs,
                             IF e.usedId THEN freshId + 1 ELSE freshId, t)
       IN  [ batch |-> e.update \o rest.batch,
             thumbGen |-> e.thumbGen \o rest.thumbGen,
             nextId |-> rest.nextId ]

\* a variant that marks no record
scanMissingNone(ids, files, existing) == << >>

\* a variant that marks every record whose path is not observed, marked
\* before or not
RECURSIVE scanMissingAgain(_, _, _)
scanMissingAgain(ids, files, existing) ==
  IF ids = << >> THEN << >>
  ELSE (IF existing[Head(ids)].relativePath \notin DOMAIN files
        THEN << [existing[Head(ids)] EXCEPT !.notFound = TRUE] >>
        ELSE << >>)
       \o scanMissingAgain(Tail(ids), files, existing)

\* loop 2 (mark not found files) over the stored records ids
RECURSIVE scanMissing(_, _, _)
scanMissing(ids, files, existing) ==
  IF ids = << >> THEN << >>
  ELSE LET video == existing[Head(ids)]
           mark == IF video.relativePath \notin DOMAIN files /\ ~video.notFound
                   THEN << [video EXCEPT !.notFound = TRUE] >>
                   ELSE << >>
       IN  mark \o scanMissing(Tail(ids), files, existing)

\* a variant that hands to the pipeline only the records new to the store
scanPlanNewOnly(files, existing, thumbs, freshId, t) ==
  LET found == scanFound(SortedSeq(DOMAIN files), files, existing, thumbs, freshId, t)
  IN  [ batch |-> found.batch \o scanMissing(SortedSeq(DOMAIN existing), files, existing),
        thumbGen |-> SelectSeq(found.thumbGen, LAMBDA v : v.id \notin DOMAIN existing),
        nextId |-> found.nextId ]

\* the plan of one pass: videosToBatchUpdate and videosForThumbGen
scanPlan(files, existing, thumbs, freshId, t) ==
  LET found == scanFound(SortedSeq(DOMAIN files), files, existing, thumbs, freshId, t)
  IN  [ batch |-> found.batch \o scanMissing(SortedSeq(DOMAIN existing), files, existing),
        thumbGen |-> found.thumbGen,
        nextId |-> found.nextId ]

\* ------------------------------------------------------- displayedVideos
StatusFilterNames ==
  { "watched", "tagged", "rated", "incompatible", "hearted", "duplicates",
    "hidden", "deleted", "renamed", "not-found" }

TagDuplicate == 9        \* the tag 'Duplicate'

conditionMet(filter, video) ==
  CASE filter = "watched" -> video.seen
    [] filter = "tagged" -> Len(video.tags) > 0
    [] filter = "rated" -> video.rating > 0
    [] filter = "incompatible" -> ~video.isPlayable
    [] filter = "hearted" -> video.hearted = TRUE
    [] filter = "duplicates" -> TagDuplicate \in Range(video.tags)
    [] filter = "hidden" -> video.hidden = TRUE
    [] filter = "deleted" -> video.deleted = TRUE
    [] filter = "renamed" -> video.title # Undefined
    [] filter = "not-found" -> video.notFound = TRUE
    [] OTHER -> FALSE

\* the filter of displayedVideos (no tag filter, no search query)
isDisplayed(video, filters) ==
  IF DOMAIN filters # {}
  THEN \A f \in DOMAIN filters :
         /\ (filters[f] = "include" => conditionMet(f, video))
         /\ (filters[f] = "exclude" => ~conditionMet(f, video))
  ELSE ~(video.hidden \/ video.deleted \/ video.notFound)

\* displayedVideos: the identifiers shown, in the order of the sort (by path)
displayedIds(vs, filters) ==
  LET shown == { id \in DOMAIN vs : isDisplayed(vs[id], filters) }
      before(a, b) == vs[a].relativePath < vs[b].relativePath
                      \/ (vs[a].relativePath = vs[b].relativePath /\ a < b)
      n == Cardinality(shown)
  IN  [i \in 1..n |->
         CHOOSE x \in shown : Cardinality({y \in shown : before(y, x)}) = i - 1]

\* handleStatusFilterToggle
toggleFilter(filters, f) ==
  IF f \in DOMAIN filters /\ filters[f] = "include"
  THEN [g \in DOMAIN filters |-> IF g = f THEN "exclude" ELSE filters[g]]
  ELSE IF f \in DOMAIN filters
       THEN [g \in (DOMAIN filters) \ {f} |-> filters[g]]
       ELSE [g \in (DOMAIN filters) \cup {f} |->
               IF g = f THEN "include" ELSE filters[g]]

\* ------------------------------------------------------------ user edits
\* the records a card or the player hands to onUpdate for its video:
\* { ...video, change }, and the video itself when its tags are applied unchanged
CardUpdates(video) ==
  { [video EXCEPT !.rating = IF video.rating = 0 THEN 5 ELSE 0],
    video,
    [video EXCEPT !.seen = ~video.seen],
    [video EXCEPT !.hearted = ~video.hearted],
    [video EXCEPT !.hidden = ~video.hidden],
    [video EXCEPT !.deleted = ~video.deleted],
    [video EXCEPT !.title = IF video.title = Undefined THEN "T" ELSE Undefined],
    [video EXCEPT !.tags = IF video.tags = << >> THEN << 1 >> ELSE << >>],
    [video EXCEPT !.currentTime = 7],
    [video EXCEPT !.timesOpened = video.timesOpened + 1] }

\* the user metadata of a record
UserFields == { "rating", "tags", "hearted", "hidden", "deleted", "title", "currentTime" }
userFieldsOf(video) == [f \in UserFields |-> video[f]]

\* keys a batch edit never propagates
batchExcludedKeys ==
  { "id", "currentTime", "timesOpened", "relativePath", "fileSize", "duration",
    "lastModified", "dateAdded", "isPlayable", "notFound" }

\* a variant without the special case
marksSeenNever(previousState, updatedVideo) == FALSE

\* special case: if play time is > 1s, mark as seen
marksSeen(previousState, updatedVideo) ==
  /\ updatedVideo.currentTime \notin {0, UndefinedNum}
  /\ updatedVideo.currentTime > 1
  /\ ~previousState.seen

\* handleUpdateVideo, batch mode: the changes to propagate, key -> value
batchChanges(previousState, updatedVideo) ==
  LET keys == { k \in (DOMAIN updatedVideo) \ batchExcludedKeys :
                  previousState[k] # updatedVideo[k] }
      seenToo == marksSeen(previousState, updatedVideo)
  IN  [k \in keys \cup (IF seenToo THEN {"seen"} ELSE {}) |->
         IF k = "seen" /\ seenToo THEN TRUE ELSE updatedVideo[k]]

\* { ...targetVideo, ...changes }
withChanges(video, changes) ==
  [f \in DOMAIN video |-> IF f \in DOMAIN changes THEN changes[f] ELSE video[f]]

\* prev.map(v => updatesMap.get(v.id) || v)
mapUpdates(vs, updates) ==
  LET last(id) == CHOOSE i \in 1..Len(updates) :
                    /\ updates[i].id = id
                    /\ \A j \in (i+1)..Len(updates) : updates[j].id # id
  IN  [id \in DOMAIN vs |->
         IF \E i \in 1..Len(updates) : updates[i].id = id
         THEN updates[last(id)] ELSE vs[id]]

batchStatesButLast(batch) == [i \in 1..(Len(batch) - 1) |-> batch[i].state]

\* the states of a history batch, in order
batchStates(batch) == [i \in 1..Len(batch) |-> batch[i].state]

currentStatesPopped(batch, vs) == batch

\* lastActionBatch.map(change => current state).filter(item => !!item.state)
RECURSIVE currentStates(_, _)
currentStates(batch, vs) ==
  IF batch = << >> THEN << >>
  ELSE (IF Head(batch).videoId \in DOMAIN vs
        THEN << [videoId |-> Head(batch).videoId, state |-> vs[Head(batch).videoId]] >>
        ELSE << >>) \o currentStates(Tail(batch), vs)

\* ----------------------------------------------------- history variables
\* the last commit: its stage (1 committed, 2 undone, 3 redone), the records
\* of its entry, memory before and after it, store and stacks after it
NoCommit ==
  [ stage |-> 0, op |-> "none", batch |-> FALSE, ids |-> << >>, changes |-> << >>,
    dropped |-> 0, pre |-> << >>, post |-> << >>, postDb |-> << >>,
    postUndo |-> << >>, postRedo |-> << >> ]

\* the fields of each record the last commit changed, and where that commit
\* stands (1 committed, 2 undone, 3 redone); none once undo or redo would
\* take another entry
NoEditLog == [ stage |-> 0, changed |-> << >> ]

noteEdit(pre, post) ==
  [ stage |-> 1,
    changed |-> [id \in { i \in DOMAIN pre : pre[i] # post[i] } |->
                   { f \in DOMAIN pre[id] : pre[id][f] # post[id][f] }] ]

\* the last pass that wrote its plan: its folder, and whether only the pass
\* and its pipeline run have written to the store since
NoPass == [ some |-> FALSE, files |-> << >>, clean |-> FALSE ]

\* a write by the user ends the cleanness of the last pass
afterUserWrite(pass, store, written) ==
  [pass EXCEPT !.clean = @ /\ store = written]

\* what the records held that the plan marks as not found
KeptFields ==
  { "rating", "tags", "seen", "hearted", "hidden", "deleted", "title",
    "currentTime", "timesOpened", "dateAdded" }
keptFieldsOf(video) == [f \in KeptFields |-> video[f]]

noteMissing(missing, store, written) ==
  [id \in { i \in DOMAIN written : written[i].notFound } |->
     IF id \in DOMAIN missing THEN missing[id]
     ELSE IF id \in DOMAIN store THEN keptFieldsOf(store[id])
     ELSE keptFieldsOf(written[id])]

\* user metadata of the records vs is the last the user entered
noteUserMeta(meta, vs) ==
  [id \in (DOMAIN meta) \cup { vs[i].id : i \in 1..Len(vs) } |->
     IF \E i \in 1..Len(vs) : vs[i].id = id
     THEN userFieldsOf(mapUpdates([j \in {id} |-> << >>], vs)[id])
     ELSE meta[id]]

\* the records of a plan that are new to the store
newRecords(batch, store) ==
  SelectSeq(batch, LAMBDA v : v.id \notin DOMAIN store)

\* -------------------------------------------------- processInBackground
IdlePipe == [ pc |-> "idle", list |-> << >>, idx |-> 0, loaded |-> << >> ]

Runs == 1..MaxScans

\* history of the runs: the last probe result and the run it went to, the runs
\* under way when cancelProcessing was requested, and per run the positions
\* of its list whose probe has started and whose write has completed
NoPipeLog ==
  [ thumbnail |-> Null, run |-> 0, cancelled |-> {},
    started |-> [r \in Runs |-> {}], written |-> [r \in Runs |-> {}] ]

\* the positions probed so far once the run stands at p
startedAt(log, r, p) ==
  IF p.pc = "probing" THEN log.started[r] \cup {p.idx} ELSE log.started[r]

\* the slot a new call of processInBackground takes
freeRun(ps) ==
  CHOOSE r \in Runs : ps[r].pc = "idle" /\ \A q \in 1..(r-1) : ps[q].pc # "idle"

\* the loop head from record i on: skip the records without a file, stop at
\* the first record to probe, at the end of the list or on cancellation
RECURSIVE pipeAdvance(_, _, _, _, _)
pipeAdvance(list, i, count, cancelled, files) ==
  IF i > Len(list) \/ cancelled
  THEN [ done |-> TRUE, idx |-> i, count |-> count ]
  ELSE IF list[i].relativePath \in DOMAIN files
       THEN [ done |-> FALSE, idx |-> i, count |-> count ]
       ELSE pipeAdvance(list, i + 1, count + 1, cancelled, files)

\* the run after its loop head: probing record idx, or reading the library
pipeAfter(list, adv, store) ==
  IF adv.done
  THEN [ pc |-> "reloading", list |-> list, idx |-> adv.idx,
         loaded |-> getAllVideos(store) ]
  ELSE [ pc |-> "probing", list |-> list, idx |-> adv.idx, loaded |-> << >> ]

\* a variant that leaves isPlayable as the pass set it
updatedVideoForDBKeepingPlayable(video, thumbnail) ==
  [video EXCEPT !.description = IF thumbnail # Null THEN "" ELSE DescProbeFailed,
                !.thumbnail = thumbnail]

\* the record processInBackground writes for a probe result
updatedVideoForDB(video, thumbnail) ==
  [video EXCEPT !.description = IF thumbnail # Null THEN "" ELSE DescProbeFailed,
                !.thumbnail = thumbnail,
                !.isPlayable = (thumbnail # Null)]

\* a variant that also puts the written record into the list in memory
pipeProbeDonePushing(r, thumbnail) ==
  /\ UNCHANGED << previewVars, listVars >>
  /\ pipe[r].pc = "probing"
  /\ LET v == updatedVideoForDB(pipe[r].list[pipe[r].idx], thumbnail)
     IN  /\ dbVideos' = upsertVideo(dbVideos, v)
         /\ dbThumbs' = upsertThumb(dbThumbs, v)
         /\ videos' = [id \in (DOMAIN videos) \cup {v.id} |-> IF id = v.id THEN v ELSE videos[id]]
  /\ pipe' = [pipe EXCEPT ![r].pc = "writing"]
  /\ pipeLog' = [pipeLog EXCEPT !.thumbnail = thumbnail, !.run = r]
  /\ commitLog' = NoCommit
  /\ UNCHANGED << fileMapRef, progressVars, uiVars, histVars, scanVars,
                  cacheVars, clockVars, scansLeft, editsLeft, userMeta, syncHist >>

\* generateThumbnail resolves for the record in flight; the write is issued
pipeProbeDone(r, thumbnail) ==
  /\ UNCHANGED << previewVars, listVars >>
  /\ pipe[r].pc = "probing"
  /\ LET v == updatedVideoForDB(pipe[r].list[pipe[r].idx], thumbnail)
     IN  /\ dbVideos' = upsertVideo(dbVideos, v)
         /\ dbThumbs' = upsertThumb(dbThumbs, v)
  /\ pipe' = [pipe EXCEPT ![r].pc = "writing"]
  /\ pipeLog' = [pipeLog EXCEPT !.thumbnail = thumbnail, !.run = r]
  /\ commitLog' = NoCommit
  /\ UNCHANGED << videos, fileMapRef, progressVars, uiVars, histVars, scanVars,
                  cacheVars, clockVars, scansLeft, editsLeft, userMeta, syncHist >>

\* the write has completed: count the record, go on with the next one
pipeWriteDone(r) ==
  /\ UNCHANGED << previewVars, listVars >>
  /\ pipe[r].pc = "writing"
  /\ LET adv == pipeAdvance(pipe[r].list, pipe[r].idx + 1, processedCount + 1,
                            cancelProcessingRef, fileMapRef)
     IN  /\ processedCount' = adv.count
         /\ pipe' = [pipe EXCEPT ![r] = pipeAfter(pipe[r].list, adv, dbVideos)]
  /\ pipeLog' = [pipeLog EXCEPT
                   !.thumbnail = Null, !.run = 0,
                   !.written[r] = @ \cup {pipe[r].idx},
                   !.started[r] = startedAt(pipeLog, r, pipe'[r])]
  /\ UNCHANGED << storeVars, videos, fileMapRef, isProcessing, cancelProcessingRef,
                  totalToProcess, uiVars, histVars, scanVars, cacheVars,
                  clockVars, scansLeft, editsLeft, userMeta, syncHist, commitLog >>

\* loadLibraryFromDB has read: the run ends
pipeReloadDone(r) ==
  /\ UNCHANGED << previewVars, listVars >>
  /\ pipe[r].pc = "reloading"
  /\ videos' = pipe[r].loaded
  /\ isProcessing' = FALSE
  /\ cancelProcessingRef' = FALSE
  /\ pipe' = [pipe EXCEPT ![r] = IdlePipe]
  /\ pipeLog' = [pipeLog EXCEPT !.cancelled = @ \ {r},
                                !.started[r] = {}, !.written[r] = {}]
  /\ commitLog' = NoCommit
  /\ UNCHANGED << storeVars, fileMapRef, processedCount, totalToProcess, uiVars,
                  histVars, scanVars, cacheVars, clockVars, scansLeft, editsLeft,
                  userMeta, syncHist >>

cancelProcessing ==
  /\ UNCHANGED << previewVars, listVars >>
  /\ isProcessing
  /\ cancelProcessingRef' = TRUE
  /\ isProcessing' = FALSE
  /\ pipeLog' = [pipeLog EXCEPT
                   !.cancelled = @ \cup { r \in Runs : pipe[r].pc \in {"probing", "writing"} }]
  /\ UNCHANGED << storeVars, videos, fileMapRef, processedCount, totalToProcess,
                  uiVars, histVars, scanVars, pipe, cacheVars, clockVars,
                  scansLeft, editsLeft, userMeta, syncHist, commitLog >>

\* ------------------------------------------- handleFilesSelected, scanFiles
\* the folder is chosen; scanFiles starts and reads the stored records
handleFilesSelected(files) ==
  /\ UNCHANGED << pipeLog, previewVars, listVars >>
  /\ scanPc = "idle"
  /\ scansLeft > 0
  /\ scansLeft' = scansLeft - 1
  /\ fileMapRef' = files
  /\ isProcessing' = TRUE
  /\ cancelProcessingRef' = FALSE
  /\ existingVideos' = getAllVideos(dbVideos)
  /\ scanPc' = "reading"
  /\ UNCHANGED << storeVars, videos, processedCount, totalToProcess, uiVars,
                  histVars, videosForThumbGen, scanLoaded, pipe, cacheVars,
                  clockVars, editsLeft, userMeta, syncHist, commitLog >>

\* a variant that does not look at the flag
cancelledBeforeWriteIgnored(cancelled) == FALSE

\* if (cancelProcessingRef.current) { setIsProcessing(false); return; }, at
\* the head of loop 1 and after each loop
cancelledBeforeWrite(cancelled) == cancelled

\* the records and thumbnails are read: loops 1 and 2, then the batch write
scanFilesPlan ==
  /\ UNCHANGED << pipeLog, previewVars, listVars >>
  /\ scanPc = "reading"
  /\ totalToProcess' = Cardinality(DOMAIN fileMapRef) + Cardinality(DOMAIN existingVideos)
  /\ IF cancelledBeforeWrite(cancelProcessingRef)
     THEN /\ processedCount' = 0
          /\ isProcessing' = FALSE
          /\ isFolderSelected' = TRUE
          /\ scanPc' = "idle"
          /\ existingVideos' = << >>
          /\ UNCHANGED << dbVideos, videosForThumbGen, scanLoaded, clockVars,
                          userMeta, syncHist, commitLog >>
     ELSE \E plan \in { scanPlan(fileMapRef, existingVideos, dbThumbs, nextId, now) } :
          \E written \in { batchUpdateVideos(dbVideos, plan.batch) } :
              /\ processedCount' = totalToProcess'
              /\ dbVideos' = written
              /\ videosForThumbGen' = plan.thumbGen
              /\ nextId' = plan.nextId
              /\ now' = now + 1
              /\ userMeta' = noteUserMeta(userMeta, newRecords(plan.batch, dbVideos))
              /\ lastPass' = [ some |-> TRUE, files |-> fileMapRef, clean |-> TRUE ]
              /\ beforeMissing' = noteMissing(beforeMissing, dbVideos, written)
              /\ commitLog' = IF plan.batch # << >> THEN NoCommit ELSE commitLog
              /\ IF plan.batch # << >>
                 THEN scanPc' = "saving" /\ scanLoaded' = << >>
                 ELSE scanPc' = "loading" /\ scanLoaded' = getAllVideos(written)
              /\ UNCHANGED << isProcessing, isFolderSelected, existingVideos, txLog >>
  /\ UNCHANGED << dbThumbs, videos, fileMapRef, cancelProcessingRef, isBatchEditMode,
                  statusFilters, histVars, pipe, cacheVars, scansLeft, editsLeft >>

\* history of the batch writes that failed: how many, the record whose put
\* failed, the batch, and whether the caller saw the promise rejected
NoTxLog == [ count |-> 0, failAt |-> 0, batch |-> << >>, rejected |-> FALSE ]

\* loops 1 and 2, then a batch write in which the put of record failAt fails:
\* scanFiles and handleFilesSelected end on the rejection
scanFilesSaveFails(failAt) ==
  /\ scanPc = "reading"
  /\ ~cancelProcessingRef
  /\ txLog.count < MaxTxFailures
  /\ \E plan \in { scanPlan(fileMapRef, existingVideos, dbThumbs, nextId, now) } :
         /\ failAt \in 1..Len(plan.batch)
         /\ dbVideos' = batchUpdateVideosTx(dbVideos, plan.batch, failAt).store
         /\ txLog' = [ count |-> txLog.count + 1, failAt |-> failAt,
                       batch |-> plan.batch,
                       rejected |-> batchUpdateVideosTx(dbVideos, plan.batch, failAt).rejected ]
         /\ nextId' = plan.nextId
         /\ now' = now + 1
  /\ totalToProcess' = Cardinality(DOMAIN fileMapRef) + Cardinality(DOMAIN existingVideos)
  /\ processedCount' = totalToProcess'
  /\ scanPc' = "idle"
  /\ existingVideos' = << >>
  /\ commitLog' = NoCommit
  /\ UNCHANGED << dbThumbs, videos, fileMapRef, isProcessing, cancelProcessingRef,
                  uiVars, histVars, videosForThumbGen, scanLoaded, pipe, cacheVars,
                  scansLeft, editsLeft, userMeta, lastPass, beforeMissing, pipeLog,
                  previewVars, listVars >>

\* the batch write has completed: loadLibraryFromDB reads the store
scanFilesSaved ==
  /\ UNCHANGED << pipeLog, previewVars, listVars >>
  /\ scanPc = "saving"
  /\ scanLoaded' = getAllVideos(dbVideos)
  /\ scanPc' = "loading"
  /\ UNCHANGED << storeVars, videos, fileMapRef, progressVars, uiVars, histVars,
                  existingVideos, videosForThumbGen, pipe, cacheVars, clockVars,
                  scansLeft, editsLeft, userMeta, syncHist, commitLog >>

\* loadLibraryFromDB has read: the pass ends and hands over to the pipeline
scanFilesDone ==
  /\ UNCHANGED << previewVars, listVars >>
  /\ scanPc = "loading"
  /\ videos' = scanLoaded
  /\ IF videosForThumbGen # << >> /\ ~cancelProcessingRef
     THEN LET adv == pipeAdvance(videosForThumbGen, 1, 0, FALSE, fileMapRef)
          IN  /\ isProcessing' = TRUE
              /\ totalToProcess' = Len(videosForThumbGen)
              /\ processedCount' = adv.count
              /\ cancelProcessingRef' = FALSE
              /\ pipe' = [pipe EXCEPT ![freeRun(pipe)] = pipeAfter(videosForThumbGen, adv, dbVideos)]
              /\ pipeLog' = [pipeLog EXCEPT
                               !.started[freeRun(pipe)] =
                                  startedAt(pipeLog, freeRun(pipe), pipe'[freeRun(pipe)])]
     ELSE /\ isProcessing' = FALSE
          /\ cancelProcessingRef' = FALSE
          /\ UNCHANGED << processedCount, totalToProcess, pipe, pipeLog >>
  /\ scanPc' = "idle"
  /\ existingVideos' = << >>
  /\ videosForThumbGen' = << >>
  /\ scanLoaded' = << >>
  /\ isFolderSelected' = TRUE
  /\ commitLog' = NoCommit
  /\ UNCHANGED << storeVars, fileMapRef, isBatchEditMode, statusFilters, histVars,
                  cacheVars, clockVars, scansLeft, editsLeft, userMeta, syncHist >>

\* ----------------------------------------------------- handleUpdateVideo
\* single-record mode: the record written
singleUpdate(previousState, updatedVideo) ==
  IF marksSeen(previousState, updatedVideo)
  THEN [updatedVideo EXCEPT !.seen = TRUE]
  ELSE updatedVideo

batchTargetsAll(vs, filters, changes) ==
  LET ids == SortedSeq(DOMAIN vs)
  IN  [ videosToUpdate |-> [i \in 1..Len(ids) |-> withChanges(vs[ids[i]], changes)],
        historyBatch |-> [i \in 1..Len(ids) |-> [videoId |-> ids[i], state |-> vs[ids[i]]]] ]

\* batch mode: videosToUpdate and historyBatch over the displayed records
batchTargets(vs, filters, changes) ==
  LET ids == displayedIds(vs, filters)
  IN  [ videosToUpdate |-> [i \in 1..Len(ids) |-> withChanges(vs[ids[i]], changes)],
        historyBatch |-> [i \in 1..Len(ids) |-> [videoId |-> ids[i], state |-> vs[ids[i]]]] ]

\* what the commit leaves for the history variables
noteCommit(batch, ids, changes, dropped, pre, post, postDb, postUndo, postRedo) ==
  [ stage |-> 1, op |-> "edit", batch |-> batch, ids |-> ids, changes |-> changes,
    dropped |-> dropped, pre |-> pre, post |-> post, postDb |-> postDb,
    postUndo |-> postUndo, postRedo |-> postRedo ]

\* setUndoStack(prev => [...prev, entry]); setRedoStack([])
pushUndoKeepingRedo(undo, redo, entry) == [ undo |-> Append(undo, entry), redo |-> redo ]

pushUndo(undo, redo, entry) == [ undo |-> Append(undo, entry), redo |-> << >> ]

onUpdate(updatedVideo) ==
  /\ UNCHANGED << pipeLog, previewVars, playlist, reset, importLog, view >>
  /\ editsLeft > 0
  /\ editsLeft' = editsLeft - 1
  /\ updatedVideo.id \in DOMAIN videos
  /\ LET previousState == videos[updatedVideo.id]
     IN  IF isBatchEditMode
         THEN LET changes == batchChanges(previousState, updatedVideo)
                  t == batchTargets(videos, statusFilters, changes)
                  h == pushUndo(undoStack, redoStack, t.historyBatch)
              IN  IF DOMAIN changes = {} \/ t.videosToUpdate = << >>
                  THEN /\ UNCHANGED << storeVars, videos, histVars, userMeta >>
                       /\ commitLog' = [NoCommit EXCEPT !.op = "edit"]
                  ELSE /\ dbVideos' = batchUpdateVideos(dbVideos, t.videosToUpdate)
                       /\ videos' = mapUpdates(videos, t.videosToUpdate)
                       /\ undoStack' = h.undo
                       /\ redoStack' = h.redo
                       /\ userMeta' = noteUserMeta(userMeta, t.videosToUpdate)
                       /\ commitLog' = noteCommit(TRUE, displayedIds(videos, statusFilters),
                                                  changes, Len(redoStack), videos, videos',
                                                  dbVideos', undoStack', redoStack')
                       /\ UNCHANGED dbThumbs
         ELSE LET v == singleUpdate(previousState, updatedVideo)
                  h == pushUndo(undoStack, redoStack,
                                << [videoId |-> v.id, state |-> previousState] >>)
              IN  /\ IF previousState # v
                     THEN /\ undoStack' = h.undo
                          /\ redoStack' = h.redo
                     ELSE UNCHANGED histVars
                  /\ dbVideos' = upsertVideo(dbVideos, v)
                  /\ dbThumbs' = upsertThumb(dbThumbs, v)
                  /\ videos' = mapUpdates(videos, << v >>)
                  /\ userMeta' = noteUserMeta(userMeta, << v >>)
                  /\ commitLog' = IF previousState # v
                                  THEN noteCommit(FALSE, << v.id >>, << >>, Len(redoStack),
                                                  videos, videos', dbVideos',
                                                  undoStack', redoStack')
                                  ELSE [NoCommit EXCEPT !.op = "edit"]
  /\ lastPass' = afterUserWrite(lastPass, dbVideos, dbVideos')
  /\ editLog' = IF undoStack' # undoStack THEN noteEdit(videos, videos') ELSE editLog
  /\ UNCHANGED << fileMapRef, progressVars, uiVars, scanVars, pipe, cacheVars,
                  clockVars, scansLeft, beforeMissing, txLog >>

\* handleUpdateVideo for an edit that is not one of tags
handleUpdateVideo(updatedVideo) == onUpdate(updatedVideo) /\ UNCHANGED tagLog

\* ------------------------------------------------- handleUndo, handleRedo
\* a variant without the early returns: it pops and pushes whatever the
\* stack holds
undoOutcomeUnguarded(undo, redo, vs, store) ==
  LET lastActionBatch == IF undo = << >> THEN << >> ELSE undo[Len(undo)]
  IN  [ undo |-> SubSeq(undo, 1, Len(undo) - 1),
        redo |-> Append(redo, currentStates(lastActionBatch, vs)),
        videos |-> mapUpdates(vs, batchStates(lastActionBatch)),
        store |-> batchUpdateVideos(store, batchStates(lastActionBatch)) ]

\* handleUndo: the stacks, the records in memory and the store it leaves
undoOutcome(undo, redo, vs, store) ==
  IF undo = << >>
  THEN [ undo |-> undo, redo |-> redo, videos |-> vs, store |-> store ]
  ELSE [ undo |-> SubSeq(undo, 1, Len(undo) - 1),
         redo |-> IF currentStates(undo[Len(undo)], vs) # << >>
                  THEN Append(redo, currentStates(undo[Len(undo)], vs))
                  ELSE redo,
         videos |-> mapUpdates(vs, batchStates(undo[Len(undo)])),
         store |-> batchUpdateVideos(store, batchStates(undo[Len(undo)])) ]

\* handleRedo: the stacks, the records in memory and the store it leaves
redoOutcome(undo, redo, vs, store) ==
  IF redo = << >>
  THEN [ undo |-> undo, redo |-> redo, videos |-> vs, store |-> store ]
  ELSE [ redo |-> SubSeq(redo, 1, Len(redo) - 1),
         undo |-> IF currentStates(redo[Len(redo)], vs) # << >>
                  THEN Append(undo, currentStates(redo[Len(redo)], vs))
                  ELSE undo,
         videos |-> mapUpdates(vs, batchStates(redo[Len(redo)])),
         store |-> batchUpdateVideos(store, batchStates(redo[Len(redo)])) ]

handleUndo ==
  /\ UNCHANGED << pipeLog, previewVars, playlist, reset, importLog, tagLog, view >>
  /\ editLog' = IF undoStack = << >> THEN editLog
                ELSE IF editLog.stage \in {1, 3} THEN [editLog EXCEPT !.stage = 2]
                ELSE NoEditLog
  /\ editsLeft > 0
  /\ redoStack' = undoOutcome(undoStack, redoStack, videos, dbVideos).redo
  /\ dbVideos' = undoOutcome(undoStack, redoStack, videos, dbVideos).store
  /\ videos' = undoOutcome(undoStack, redoStack, videos, dbVideos).videos
  /\ undoStack' = undoOutcome(undoStack, redoStack, videos, dbVideos).undo
  /\ IF undoStack = << >>
     THEN UNCHANGED << dbThumbs, userMeta, commitLog, editsLeft, lastPass >>
     ELSE LET lastActionBatch == undoStack[Len(undoStack)]
          IN  /\ userMeta' = noteUserMeta(userMeta, batchStates(lastActionBatch))
              /\ commitLog' = IF commitLog.stage = 1
                              THEN [commitLog EXCEPT !.stage = 2, !.op = "undo"]
                              ELSE [NoCommit EXCEPT !.op = "undo"]
              /\ editsLeft' = editsLeft - 1
              /\ lastPass' = afterUserWrite(lastPass, dbVideos, dbVideos')
              /\ UNCHANGED dbThumbs
  /\ UNCHANGED << fileMapRef, progressVars, uiVars, scanVars, pipe, cacheVars,
                  clockVars, scansLeft, beforeMissing, txLog >>

handleRedo ==
  /\ UNCHANGED << pipeLog, previewVars, playlist, reset, importLog, tagLog, view >>
  /\ editLog' = IF redoStack = << >> THEN editLog
                ELSE IF editLog.stage = 2 THEN [editLog EXCEPT !.stage = 3]
                ELSE NoEditLog
  /\ editsLeft > 0
  /\ undoStack' = redoOutcome(undoStack, redoStack, videos, dbVideos).undo
  /\ dbVideos' = redoOutcome(undoStack, redoStack, videos, dbVideos).store
  /\ videos' = redoOutcome(undoStack, redoStack, videos, dbVideos).videos
  /\ redoStack' = redoOutcome(undoStack, redoStack, videos, dbVideos).redo
  /\ IF redoStack = << >>
     THEN UNCHANGED << dbThumbs, userMeta, commitLog, editsLeft, lastPass >>
     ELSE LET lastActionBatch == redoStack[Len(redoStack)]
          IN  /\ userMeta' = noteUserMeta(userMeta, batchStates(lastActionBatch))
              /\ commitLog' = IF commitLog.stage = 2
                              THEN [commitLog EXCEPT !.stage = 3, !.op = "redo"]
                              ELSE [NoCommit EXCEPT !.op = "redo"]
              /\ editsLeft' = editsLeft - 1
              /\ lastPass' = afterUserWrite(lastPass, dbVideos, dbVideos')
              /\ UNCHANGED dbThumbs
  /\ UNCHANGED << fileMapRef, progressVars, uiVars, scanVars, pipe, cacheVars,
                  clockVars, scansLeft, beforeMissing, txLog >>

\* ------------------------------------- history operations whose write fails
\* what a failed write of handleUpdateVideo, handleUndo or handleRedo leaves
\* of the model alone
failedWriteFrame ==
  << storeVars, videos, fileMapRef, progressVars, uiVars, scanVars, pipe, cacheVars,
     clockVars, scansLeft, userMeta, lastPass, beforeMissing, pipeLog, previewVars,
     playlist, reset, importLog, tagLog, view >>

\* handleUpdateVideo when the promise of its write is rejected: the handler
\* ends at the await
handleUpdateVideoFails(updatedVideo) ==
  /\ editsLeft > 0
  /\ txLog.count < MaxTxFailures
  /\ updatedVideo.id \in DOMAIN videos
  /\ LET previousState == videos[updatedVideo.id]
     IN  IF isBatchEditMode
         THEN LET changes == batchChanges(previousState, updatedVideo)
                  t == batchTargets(videos, statusFilters, changes)
              IN  /\ DOMAIN changes # {}
                  /\ t.videosToUpdate # << >>
                  /\ txLog' = [ count |-> txLog.count + 1, failAt |-> 1,
                                batch |-> t.videosToUpdate, rejected |-> TRUE ]
                  /\ UNCHANGED histVars
         ELSE LET v == singleUpdate(previousState, updatedVideo)
                  h == pushUndo(undoStack, redoStack,
                                << [videoId |-> v.id, state |-> previousState] >>)
              IN  /\ IF previousState # v
                     THEN /\ undoStack' = h.undo
                          /\ redoStack' = h.redo
                     ELSE UNCHANGED histVars
                  /\ txLog' = [ count |-> txLog.count + 1, failAt |-> 1,
                                batch |-> << v >>, rejected |-> TRUE ]
  /\ editsLeft' = editsLeft - 1
  /\ commitLog' = [NoCommit EXCEPT !.op = "edit"]
  /\ editLog' = IF undoStack' # undoStack THEN NoEditLog ELSE editLog
  /\ UNCHANGED failedWriteFrame

\* handleUndo when the promise of its batch write is rejected
handleUndoFails ==
  /\ editsLeft > 0
  /\ txLog.count < MaxTxFailures
  /\ undoStack # << >>
  /\ redoStack' = undoOutcome(undoStack, redoStack, videos, dbVideos).redo
  /\ txLog' = [ count |-> txLog.count + 1, failAt |-> 1,
                batch |-> batchStates(undoStack[Len(undoStack)]), rejected |-> TRUE ]
  /\ editsLeft' = editsLeft - 1
  /\ commitLog' = [NoCommit EXCEPT !.op = "undo"]
  /\ editLog' = NoEditLog
  /\ UNCHANGED << failedWriteFrame, undoStack >>

\* handleRedo when the promise of its batch write is rejected
handleRedoFails ==
  /\ editsLeft > 0
  /\ txLog.count < MaxTxFailures
  /\ redoStack # << >>
  /\ undoStack' = redoOutcome(undoStack, redoStack, videos, dbVideos).undo
  /\ txLog' = [ count |-> txLog.count + 1, failAt |-> 1,
                batch |-> batchStates(redoStack[Len(redoStack)]), rejected |-> TRUE ]
  /\ editsLeft' = editsLeft - 1
  /\ commitLog' = [NoCommit EXCEPT !.op = "redo"]
  /\ editLog' = NoEditLog
  /\ UNCHANGED << failedWriteFrame, redoStack >>

\* ------------------------------------------------------------ the header
\* handleUnhideAllVideos, with its loadLibraryFromDB
handleUnhideAllVideos ==
  /\ UNCHANGED << pipeLog, previewVars, listVars >>
  /\ editsLeft > 0
  /\ LET ids == SortedSeq({ id \in DOMAIN videos : videos[id].hidden })
         videosToUpdate == [i \in 1..Len(ids) |-> [videos[ids[i]] EXCEPT !.hidden = FALSE]]
     IN  /\ videosToUpdate # << >>
         /\ dbVideos' = batchUpdateVideos(dbVideos, videosToUpdate)
         /\ videos' = getAllVideos(dbVideos')
         /\ userMeta' = noteUserMeta(userMeta, videosToUpdate)
  /\ editsLeft' = editsLeft - 1
  /\ commitLog' = NoCommit
  /\ lastPass' = afterUserWrite(lastPass, dbVideos, dbVideos')
  /\ UNCHANGED << dbThumbs, fileMapRef, progressVars, uiVars, histVars, scanVars,
                  pipe, cacheVars, clockVars, scansLeft, beforeMissing, txLog >>

handleBatchEditModeChange(enabled) ==
  /\ UNCHANGED << pipeLog, previewVars, listVars >>
  /\ isBatchEditMode # enabled
  /\ isBatchEditMode' = enabled
  /\ UNCHANGED << storeVars, videos, fileMapRef, progressVars, statusFilters,
                  isFolderSelected, histVars, scanVars, pipe, cacheVars, clockVars, scansLeft, editsLeft,
                  userMeta, syncHist, commitLog >>

\* ------------------------------------------------------------ scrubCache
Strips == {"s1", "s2"}   \* timeline preview sequences

cacheKeys(cache) == { cache[i].key : i \in 1..Len(cache) }

cacheIndex(cache, key) == CHOOSE i \in 1..Len(cache) : cache[i].key = key

\* Map.prototype.delete
mapDelete(cache, key) == SelectSeq(cache, LAMBDA e : e.key # key)

\* Map.prototype.set: an existing key keeps its place
mapSet(cache, key, value) ==
  IF key \in cacheKeys(cache)
  THEN [cache EXCEPT ![cacheIndex(cache, key)].value = value]
  ELSE Append(cache, [key |-> key, value |-> value])

\* cache.get(key)
mapGet(cache, key) ==
  IF key \in cacheKeys(cache) THEN cache[cacheIndex(cache, key)].value ELSE Undefined

\* scrubCache.get: the cache afterwards
cacheAfterGet(cache, key) ==
  LET item == mapGet(cache, key)
  IN  IF item # Undefined THEN mapSet(mapDelete(cache, key), key, item) ELSE cache

\* scrubCache.set: does it evict, and the cache afterwards
setEvictsAbove(cache) == Len(cache) > maxSize

setEvicts(cache) == Len(cache) >= maxSize

cacheAfterSet(cache, key, value) ==
  IF setEvicts(cache)
  THEN mapSet(mapDelete(cache, cache[1].key), key, value)
  ELSE mapSet(cache, key, value)

\* the accesses the history variable has seen, the keys inserted since the
\* visible records last changed and the entries that change removed
NoCacheLog ==
  [ tick |-> 0, access |-> << >>, evicted |-> 0, stalest |-> {}, evictions |-> 0,
    got |-> Undefined, promoted |-> 0, since |-> {}, cleared |-> 0 ]

\* the cached keys whose last access is the oldest
stalestKeys(cache, access) ==
  { k \in cacheKeys(cache) : \A j \in cacheKeys(cache) : access[k] <= access[j] }

touch(access, cache, key, tick) ==
  [k \in cacheKeys(cache) |-> IF k = key THEN tick ELSE access[k]]

\* the keys an operation of the model is called with
KeysInUse(cache) ==
  (1..NumCacheKeys) \cup (IF cache = << >> THEN {} ELSE {cache[1].key})

scrubCacheGet(key) ==
  /\ UNCHANGED << pipeLog, previewVars, listVars >>
  /\ nCacheOps < MaxCacheOps
  /\ nCacheOps' = nCacheOps + 1
  /\ scrubCache' = cacheAfterGet(scrubCache, key)
  /\ cacheLog' =
       IF mapGet(scrubCache, key) # Undefined
       THEN [cacheLog EXCEPT !.tick = @ + 1,
                             !.access = touch(@, scrubCache', key, cacheLog.tick + 1),
                             !.got = mapGet(scrubCache, key),
                             !.promoted = key]
       ELSE [cacheLog EXCEPT !.got = Undefined]
  /\ UNCHANGED << storeVars, videos, fileMapRef, progressVars, uiVars, histVars,
                  scanVars, pipe, clockVars, scansLeft, editsLeft, userMeta, syncHist,
                  commitLog >>

scrubCacheSet(key, value) ==
  /\ UNCHANGED << pipeLog, previewVars, listVars >>
  /\ nCacheOps < MaxCacheOps
  /\ nCacheOps' = nCacheOps + 1
  /\ scrubCache' = cacheAfterSet(scrubCache, key, value)
  /\ cacheLog' =
       [cacheLog EXCEPT
          !.tick = @ + 1,
          !.access = touch(@, scrubCache', key, cacheLog.tick + 1),
          !.evicted = IF setEvicts(scrubCache) THEN scrubCache[1].key ELSE @,
          !.stalest = IF setEvicts(scrubCache)
                      THEN stalestKeys(scrubCache, cacheLog.access) ELSE @,
          !.evictions = IF setEvicts(scrubCache) /\ @ < 2 THEN @ + 1 ELSE @,
          !.got = Undefined,
          !.promoted = IF @ = key THEN 0 ELSE @,
          !.since = IF key \in cacheKeys(scrubCache) THEN @ ELSE @ \cup {key}]
  /\ UNCHANGED << storeVars, videos, fileMapRef, progressVars, uiVars, histVars,
                  scanVars, pipe, clockVars, scansLeft, editsLeft, userMeta, syncHist,
                  commitLog >>

scrubCacheDelete(key) ==
  /\ UNCHANGED << pipeLog, previewVars, listVars >>
  /\ nCacheOps < MaxCacheOps
  /\ nCacheOps' = nCacheOps + 1
  /\ scrubCache' = mapDelete(scrubCache, key)
  /\ cacheLog' = [cacheLog EXCEPT
                    !.access = [k \in cacheKeys(scrubCache') |-> @[k]],
                    !.got = Undefined,
                    !.promoted = IF @ = key THEN 0 ELSE @]
  /\ UNCHANGED << storeVars, videos, fileMapRef, progressVars, uiVars, histVars,
                  scanVars, pipe, clockVars, scansLeft, editsLeft, userMeta, syncHist,
                  commitLog >>

scrubCacheClear ==
  /\ UNCHANGED << pipeLog, previewVars, listVars >>
  /\ nCacheOps < MaxCacheOps
  /\ nCacheOps' = nCacheOps + 1
  /\ scrubCache' = << >>
  /\ cacheLog' = [cacheLog EXCEPT !.access = << >>, !.got = Undefined, !.promoted = 0]
  /\ UNCHANGED << storeVars, videos, fileMapRef, progressVars, uiVars, histVars,
                  scanVars, pipe, clockVars, scansLeft, editsLeft, userMeta, syncHist,
                  commitLog >>

\* the filters the header toggles in the model
ToggledFilters == {"deleted"}

\* a variant of the effect that leaves the cache as it is
cacheOnViewChangeKept(cache) == cache

\* the effect on [statusFilters, selectedTags, searchQuery, currentPage]:
\* scrubCache.clear()
cacheOnViewChange(cache) == << >>

\* what the effect leaves for the history variable
noteViewChange(log, cache) ==
  [log EXCEPT !.access = [k \in cacheKeys(cacheOnViewChange(cache)) |-> @[k]],
              !.got = Undefined,
              !.promoted = IF @ \in cacheKeys(cacheOnViewChange(cache)) THEN @ ELSE 0,
              !.since = {}, !.cleared = Len(cache)]

\* the effect on [statusFilters, selectedTags, searchQuery, sortCriteria,
\* sortDirection]: setCurrentPage(1)
pageReset(v) == [v EXCEPT !.currentPage = 1]

\* handleStatusFilterToggle, with the effects that reset the page and clear
\* the cache
handleStatusFilterToggle(filter) ==
  /\ UNCHANGED << pipeLog, previewVars, playlist, reset, importLog, tagLog, editLog >>
  /\ statusFilters' = toggleFilter(statusFilters, filter)
  /\ view' = pageReset(view)
  /\ scrubCache' = cacheOnViewChange(scrubCache)
  /\ cacheLog' = noteViewChange(cacheLog, scrubCache)
  /\ UNCHANGED << storeVars, videos, fileMapRef, progressVars, isBatchEditMode,
                  isFolderSelected, histVars, scanVars, pipe, clockVars, scansLeft,
                  editsLeft, nCacheOps,
                  userMeta, syncHist, commitLog >>

\* ------------------------------------------- timeline previews of a record
Viewers == {"card", "player"}

\* a component before any timeline load: the record it shows (0: none yet),
\* scrubStatus, its local strip, the position of loadTimelineThumbnails and
\* what that call has read or generated
IdleViewer ==
  [ id |-> 0, scrubStatus |-> "idle", localTimelineThumbnails |-> Null,
    pc |-> "idle", dbThumbs |-> Undefined, generatedThumbs |-> Null ]

NoViewers == [w \in Viewers |-> IdleViewer]

\* the n-th strip generateTimelineThumbnails has produced
StripName(n) == << "s1", "s2", "s3", "s4" >>[n]

\* getFileForPlayback: is the file of the record in the granted folder
getFileForPlayback(files, video) == video.relativePath \in DOMAIN files

\* dbService.getTimelineThumbnails
getTimelineThumbnails(store, id) == IF id \in DOMAIN store THEN store[id] ELSE Undefined

\* dbService.setTimelineThumbnails
setTimelineThumbnails(store, id, strip) ==
  [k \in (DOMAIN store) \cup {id} |-> IF k = id THEN strip ELSE store[k]]

\* dbService.deleteTimelineThumbnails
deleteTimelineThumbnails(store, id) == [k \in (DOMAIN store) \ {id} |-> store[k]]

\* the component w has its strip and shows it on a scrub
viewerLoaded(w, id, strip) ==
  [viewers EXCEPT ![w] = [ id |-> id, scrubStatus |-> "loaded",
                           localTimelineThumbnails |-> strip, pc |-> "idle",
                           dbThumbs |-> Undefined, generatedThumbs |-> Null ]]

viewerFailed(w, id) ==
  [viewers EXCEPT ![w] = [ id |-> id, scrubStatus |-> "failed",
                           localTimelineThumbnails |-> viewers[w].localTimelineThumbnails,
                           pc |-> "idle", dbThumbs |-> Undefined,
                           generatedThumbs |-> Null ]]

\* everything but the preview state
appVars ==
  << dbVideos, dbThumbs, videos, fileMapRef, progressVars, uiVars, histVars,
     scanVars, pipe, clockVars, scansLeft, editsLeft, nCacheOps, userMeta,
     syncHist, commitLog, cacheLog, pipeLog >>

\* loadTimelineThumbnails of the card or of the player, up to its first await
loadTimelineThumbnails(w, id) ==
  /\ isFolderSelected
  /\ viewers[w].pc = "idle"
  /\ id \in Range(displayedIds(videos, statusFilters))
  /\ w = "card" => viewers[w].id \in {0, id} /\ viewers[w].scrubStatus = "idle"
  /\ w = "card" => videos[id].isPlayable
  /\ IF ~videos[id].isPlayable
     THEN /\ viewers' = [viewers EXCEPT ![w] = [IdleViewer EXCEPT !.id = id]]
          /\ UNCHANGED scrubCache
     ELSE LET cachedThumbs == mapGet(scrubCache, id)
          IN  /\ scrubCache' = cacheAfterGet(scrubCache, id)
              /\ IF cachedThumbs # Undefined
                 THEN viewers' = viewerLoaded(w, id, cachedThumbs)
                 ELSE viewers' = [viewers EXCEPT ![w] =
                        [ id |-> id, scrubStatus |-> "loading",
                          localTimelineThumbnails |-> viewers[w].localTimelineThumbnails,
                          pc |-> "reading",
                          dbThumbs |-> getTimelineThumbnails(dbTimeline, id),
                          generatedThumbs |-> Null ]]
  /\ UNCHANGED << appVars, dbTimeline, regen, nextStrip, regenLog, listVars >>

\* getTimelineThumbnails has answered: use the stored strip, or generate one
loadTimelineRead(w) ==
  /\ viewers[w].pc = "reading"
  /\ LET id == viewers[w].id
     IN  IF viewers[w].dbThumbs # Undefined
         THEN /\ viewers' = viewerLoaded(w, id, viewers[w].dbThumbs)
              /\ scrubCache' = cacheAfterSet(scrubCache, id, viewers[w].dbThumbs)
         ELSE /\ UNCHANGED scrubCache
              /\ IF id \in DOMAIN videos /\ getFileForPlayback(fileMapRef, videos[id])
                 THEN viewers' = [viewers EXCEPT ![w].pc = "generating",
                                                 ![w].dbThumbs = Undefined]
                 ELSE viewers' = viewerFailed(w, id)
  /\ UNCHANGED << appVars, dbTimeline, regen, nextStrip, regenLog, listVars >>

\* generateTimelineThumbnails has resolved; a strip is stored
loadTimelineGenerated(w, ok) ==
  /\ viewers[w].pc = "generating"
  /\ IF ok
     THEN /\ nextStrip <= MaxStrips
          /\ nextStrip' = nextStrip + 1
          /\ dbTimeline' = setTimelineThumbnails(dbTimeline, viewers[w].id, StripName(nextStrip))
          /\ viewers' = [viewers EXCEPT ![w].pc = "storing",
                                        ![w].generatedThumbs = StripName(nextStrip)]
     ELSE /\ viewers' = viewerFailed(w, viewers[w].id)
          /\ UNCHANGED << dbTimeline, nextStrip >>
  /\ UNCHANGED << appVars, scrubCache, regen, regenLog, listVars >>

\* setTimelineThumbnails has completed
loadTimelineStored(w) ==
  /\ viewers[w].pc = "storing"
  /\ viewers' = viewerLoaded(w, viewers[w].id, viewers[w].generatedThumbs)
  /\ scrubCache' = cacheAfterSet(scrubCache, viewers[w].id, viewers[w].generatedThumbs)
  /\ UNCHANGED << appVars, dbTimeline, regen, nextStrip, regenLog, listVars >>

\* ------------------------------------------- handleRegenerateThumbnails
IdleRegen == [ pc |-> "idle", video |-> << >>, loaded |-> << >> ]

\* history: the requests so far, the record of the last one, whether its file
\* was there, the strips that existed when it was made, and whether the
\* call has removed the record's cache entry
NoRegenLog ==
  [ count |-> 0, id |-> 0, accessible |-> FALSE, before |-> {}, invalidated |-> FALSE ]

\* the text shown when the file of the record is not in the granted folder
RegenErrorMsg(video) ==
  "Auto-regeneration failed for " \o
  << "a.mp4", "b.JPG", "c.mkv", "d" >>[video.relativePath] \o
  "\nFile not available. Please re-select folder."

DescRegenFailed == "Failed to regenerate thumbnail."

\* a variant that also marks the record not playable
regenUnavailableUnplayable(video) ==
  [video EXCEPT !.description = RegenErrorMsg(video), !.isPlayable = FALSE]

\* what the handler writes in memory when the file is not there
regenUnavailable(video) == [video EXCEPT !.description = RegenErrorMsg(video)]

\* the Regenerate button of a card, up to the first await that can suspend
handleRegenerateThumbnails(id) ==
  /\ UNCHANGED listVars
  /\ isFolderSelected
  /\ regen.pc = "idle"
  /\ regenLog.count < MaxRegens
  /\ id \in Range(displayedIds(videos, statusFilters))
  /\ ~videos[id].notFound
  /\ regenLog' = [ count |-> regenLog.count + 1, id |-> id,
                   accessible |-> getFileForPlayback(fileMapRef, videos[id]),
                   before |-> { StripName(n) : n \in 1..(nextStrip - 1) },
                   invalidated |-> FALSE ]
  /\ IF ~getFileForPlayback(fileMapRef, videos[id])
     THEN /\ videos' = [videos EXCEPT ![id] = regenUnavailable(videos[id])]
          /\ isFolderSelected' = (DOMAIN fileMapRef # {})
          /\ UNCHANGED << dbTimeline, regen >>
     ELSE /\ dbTimeline' = deleteTimelineThumbnails(dbTimeline, id)
          /\ regen' = [ pc |-> "deleting", video |-> videos[id], loaded |-> << >> ]
          /\ UNCHANGED << videos, isFolderSelected >>
  /\ UNCHANGED << dbVideos, dbThumbs, fileMapRef, progressVars, isBatchEditMode,
                  statusFilters, histVars, scanVars, pipe, clockVars, scansLeft,
                  editsLeft, cacheVars, userMeta, syncHist, commitLog, pipeLog,
                  viewers, nextStrip >>

\* the artifact is deleted: drop the cache entry, start the probe
regenDeleted ==
  /\ UNCHANGED listVars
  /\ regen.pc = "deleting"
  /\ scrubCache' = mapDelete(scrubCache, regen.video.id)
  /\ videos' = [id \in DOMAIN videos |->
                  IF id = regen.video.id
                  THEN [videos[id] EXCEPT !.description = DescGenerating,
                                          !.thumbnail = Null]
                  ELSE videos[id]]
  /\ regen' = [regen EXCEPT !.pc = "generating"]
  /\ regenLog' = [regenLog EXCEPT !.invalidated = TRUE]
  /\ UNCHANGED << dbVideos, dbThumbs, fileMapRef, progressVars, uiVars, histVars,
                  scanVars, pipe, clockVars, scansLeft, editsLeft, nCacheOps,
                  cacheLog, userMeta, syncHist, commitLog, pipeLog, dbTimeline,
                  viewers, nextStrip >>

\* the record handleRegenerateThumbnails writes for a probe result
regenUpdatedVideo(video, thumbnail) ==
  [video EXCEPT !.thumbnail = thumbnail,
                !.description = IF thumbnail # Null THEN "" ELSE DescRegenFailed,
                !.isPlayable = (thumbnail # Null)]

\* generateThumbnail has resolved: the record is written
regenProbeDone(thumbnail) ==
  /\ UNCHANGED listVars
  /\ regen.pc = "generating"
  /\ LET v == regenUpdatedVideo(regen.video, thumbnail)
     IN  /\ dbVideos' = upsertVideo(dbVideos, v)
         /\ dbThumbs' = upsertThumb(dbThumbs, v)
  /\ regen' = [regen EXCEPT !.pc = "writing"]
  /\ commitLog' = NoCommit
  /\ UNCHANGED << videos, fileMapRef, progressVars, uiVars, histVars, scanVars,
                  pipe, clockVars, scansLeft, editsLeft, cacheVars, userMeta,
                  syncHist, pipeLog, dbTimeline, viewers, nextStrip, regenLog >>

\* the write has completed: loadLibraryFromDB reads the store
regenWritten ==
  /\ regen.pc = "writing"
  /\ regen' = [regen EXCEPT !.pc = "reloading", !.loaded = getAllVideos(dbVideos)]
  /\ UNCHANGED << appVars, scrubCache, dbTimeline, viewers, nextStrip, regenLog, listVars >>

\* loadLibraryFromDB has read: the handler ends
regenReloaded ==
  /\ UNCHANGED listVars
  /\ regen.pc = "reloading"
  /\ videos' = regen.loaded
  /\ regen' = IdleRegen
  /\ commitLog' = NoCommit
  /\ UNCHANGED << dbVideos, dbThumbs, fileMapRef, progressVars, uiVars, histVars,
                  scanVars, pipe, clockVars, scansLeft, editsLeft, cacheVars,
                  userMeta, syncHist, pipeLog, dbTimeline, viewers, nextStrip,
                  regenLog >>

\* ------------------------------------------------------------------ tags
\* a tag is written as the rank of its text in the order of UTF-16 code units,
\* the order of Array.prototype.sort without a comparator:
\* 'Art' < 'Duplicate' < 'Transcoded' < 'art'
TagArt == 1
TagTranscoded == 12
TagArtLower == 21
NoTag == 0               \* an input that is empty once trimmed

\* String.prototype.toLowerCase on the text of a tag the user types
lowerTag(tag) == IF tag = TagArt THEN TagArtLower ELSE tag

\* [...new Set(tags)]: the first occurrence of each tag, in order
RECURSIVE uniqueTags(_)
uniqueTags(tags) ==
  IF tags = << >> THEN << >>
  ELSE LET rest == uniqueTags(SubSeq(tags, 1, Len(tags) - 1))
       IN  IF tags[Len(tags)] \in Range(rest) THEN rest
           ELSE Append(rest, tags[Len(tags)])

\* a variant that leaves the tags in the order it is given them
sortTagsNot(tags) == tags

\* tags.sort(): ascending by code units, equal tags kept
RECURSIVE sortTags(_)
sortTags(tags) ==
  IF tags = << >> THEN << >>
  ELSE LET m == CHOOSE i \in 1..Len(tags) :
                  \A j \in 1..Len(tags) :
                    tags[i] < tags[j] \/ (tags[i] = tags[j] /\ i <= j)
       IN  << tags[m] >>
           \o sortTags([k \in 1..(Len(tags) - 1) |->
                          IF k < m THEN tags[k] ELSE tags[k + 1]])

\* tags.filter(t => t !== tag)
RECURSIVE withoutTag(_, _)
withoutTag(tags, tag) ==
  IF tags = << >> THEN << >>
  ELSE (IF Head(tags) = tag THEN << >> ELSE << Head(tags) >>)
       \o withoutTag(Tail(tags), tag)

\* finalTags of both handleApplyTags: the staged tags and the new tag, when
\* there is one and it is not staged
finalTags(stagedTags, newTag) ==
  IF newTag # NoTag /\ newTag \notin Range(stagedTags)
  THEN Append(stagedTags, newTag) ELSE stagedTags

\* the last tags applied: the record and the tags of finalTags, as a set
NoTagLog == [ count |-> 0, id |-> 0, finalTags |-> {} ]

noteTags(id, tags) == [ count |-> tagLog.count + 1, id |-> id, finalTags |-> Range(tags) ]

\* VideoCard.handleApplyTags with the tags staged in the menu and the text of
\* the input, trimmed
cardApplyTags(video, stagedTags, newTagInput) ==
  LET sortedFinal == sortTags(uniqueTags(finalTags(stagedTags, newTagInput)))
      sortedCurrent == sortTags(video.tags)
  IN  /\ sortedFinal # sortedCurrent
      /\ onUpdate([video EXCEPT !.tags = sortedFinal])
      /\ tagLog' = noteTags(video.id, finalTags(stagedTags, newTagInput))

\* VideoMetadataEditor.handleApplyTags, in the player
editorApplyTags(video, stagedTags, newTagInput) ==
  /\ onUpdate([video EXCEPT !.tags =
                 sortTags(uniqueTags(finalTags(stagedTags, lowerTag(newTagInput))))])
  /\ tagLog' = noteTags(video.id, finalTags(stagedTags, lowerTag(newTagInput)))

\* the button that removes one tag of a record, on the card and in the player
removeTag(video, tag) ==
  /\ tag \in Range(video.tags)
  /\ onUpdate([video EXCEPT !.tags = withoutTag(video.tags, tag)])
  /\ UNCHANGED tagLog

\* dbService.upsertVideo on the 'main_thumbnails' store, for each record in turn
RECURSIVE upsertThumbs(_, _)
upsertThumbs(thumbs, vs) ==
  IF vs = << >> THEN thumbs ELSE upsertThumbs(upsertThumb(thumbs, Head(vs)), Tail(vs))

\* Math.round of a duration, in tenths of a second
round(duration) == (duration + 5) \div 10

\* the durations a probe may report, in tenths of a second
DurationProbes == { 296, 304 }

\* handleScanDurations, each probe answering as probes says
handleScanDurations(probes) ==
  /\ UNCHANGED << pipeLog, previewVars, listVars, editsLeft >>
  /\ LET videosWithoutDuration ==
           SortedSeq({ id \in DOMAIN videos :
                         videos[id].duration \in {NullNum, 0} /\ videos[id].isPlayable })
         hasFile(id) == videos[id].relativePath \in DOMAIN fileMapRef
         updated == SelectSeq(
           [i \in 1..Len(videosWithoutDuration) |->
              [videos[videosWithoutDuration[i]] EXCEPT
                 !.duration = IF hasFile(videosWithoutDuration[i])
                              THEN probes[videosWithoutDuration[i]] ELSE NullNum]],
           LAMBDA v : v.duration # NullNum)
     IN  /\ videosWithoutDuration # << >>
         /\ DOMAIN probes = Range(videosWithoutDuration)
         /\ dbVideos' = batchUpdateVideos(dbVideos, updated)
         /\ dbThumbs' = upsertThumbs(dbThumbs, updated)
         /\ videos' = getAllVideos(dbVideos')
         /\ userMeta' = noteUserMeta(userMeta, updated)
         /\ isFolderSelected' = IF (\E i \in 1..Len(videosWithoutDuration) :
                                      ~hasFile(videosWithoutDuration[i]))
                                   /\ DOMAIN fileMapRef = {}
                                THEN FALSE ELSE isFolderSelected
         /\ isProcessing' = FALSE
         /\ cancelProcessingRef' = FALSE
         /\ totalToProcess' = Len(videosWithoutDuration)
         /\ processedCount' = Len(videosWithoutDuration)
  /\ commitLog' = NoCommit
  /\ lastPass' = afterUserWrite(lastPass, dbVideos, dbVideos')
  /\ UNCHANGED << fileMapRef, isBatchEditMode, statusFilters, histVars,
                  scanVars, pipe, cacheVars, clockVars, scansLeft, beforeMissing, txLog >>

\* handleFindDuplicates: the records to tag 'Duplicate'
duplicatesToTag(vs) ==
  LET compared == { id \in DOMAIN vs :
                      /\ vs[id].duration \notin {NullNum, 0}
                      /\ vs[id].deleted # TRUE
                      /\ vs[id].hidden # TRUE }
      key(id) == << vs[id].fileSize, round(vs[id].duration) >>
      ids == SortedSeq({ id \in compared :
                           /\ \E other \in compared \ {id} : key(other) = key(id)
                           /\ TagDuplicate \notin Range(vs[id].tags) })
  IN  [i \in 1..Len(ids) |->
         [vs[ids[i]] EXCEPT !.tags = sortTags(Append(vs[ids[i]].tags, TagDuplicate))]]

\* String.prototype.lastIndexOf for a single character, counted from 1; 0 for -1
lastIndexOf(s, c) ==
  IF includes(s, c)
  THEN CHOOSE i \in 1..Len(s) : s[i] = c /\ \A j \in (i + 1)..Len(s) : s[j] # c
  ELSE 0

pathWithoutExt(name) ==
  IF lastIndexOf(name, ".") # 0 THEN SubSeq(name, 1, lastIndexOf(name, ".") - 1) ELSE name

TRANSCODABLE_EXTENSIONS ==
  { <<".", "m", "k", "v">>, <<".", "m", "o", "v">>, <<".", "a", "v", "i">>,
    <<".", "w", "m", "v">>, <<".", "f", "l", "v">>, <<".", "w", "e", "b", "m">> }

\* transcodeService.isTranscodable
isTranscodable(filename) ==
  \E ext \in TRANSCODABLE_EXTENSIONS : endsWith(toLowerCase(filename), ext)

\* handleFindTranscoded: the records to tag 'Transcoded'
transcodedToTag(vs) ==
  LET stem(id) == pathWithoutExt(FileName(vs[id].relativePath))
      isMp4(id) == endsWith(toLowerCase(FileName(vs[id].relativePath)),
                            <<".", "m", "p", "4">>)
      ids == SortedSeq({ id \in DOMAIN vs :
                           /\ \E other \in (DOMAIN vs) \ {id} : stem(other) = stem(id)
                           /\ \E other \in DOMAIN vs : stem(other) = stem(id) /\ isMp4(other)
                           /\ isTranscodable(FileName(vs[id].relativePath))
                           /\ TagTranscoded \notin Range(vs[id].tags) })
  IN  [i \in 1..Len(ids) |->
         [vs[ids[i]] EXCEPT !.tags = sortTags(Append(vs[ids[i]].tags, TagTranscoded))]]

\* handleResetDuplicates: the records that lose the tag 'Duplicate'
duplicatesToReset(vs) ==
  LET ids == SortedSeq({ id \in DOMAIN vs : TagDuplicate \in Range(vs[id].tags) })
  IN  [i \in 1..Len(ids) |->
         [vs[ids[i]] EXCEPT !.tags = withoutTag(vs[ids[i]].tags, TagDuplicate)]]

\* the write of a settings action over the library and the reload after it,
\* nothing written and nothing loaded when there is no record to update
tagLibrary(videosToUpdate) ==
  /\ UNCHANGED << pipeLog, previewVars, listVars, editsLeft >>
  /\ IF videosToUpdate # << >>
     THEN /\ dbVideos' = batchUpdateVideos(dbVideos, videosToUpdate)
          /\ videos' = getAllVideos(dbVideos')
          /\ userMeta' = noteUserMeta(userMeta, videosToUpdate)
     ELSE UNCHANGED << dbVideos, videos, userMeta >>
  /\ commitLog' = NoCommit
  /\ lastPass' = afterUserWrite(lastPass, dbVideos, dbVideos')
  /\ UNCHANGED << dbThumbs, fileMapRef, cancelProcessingRef, uiVars, histVars, scanVars,
                  pipe, cacheVars, clockVars, scansLeft, beforeMissing, txLog >>

handleFindDuplicates ==
  /\ tagLibrary(duplicatesToTag(videos))
  /\ isProcessing' = FALSE
  /\ totalToProcess' = Cardinality(DOMAIN videos)
  /\ processedCount' = Cardinality({ id \in DOMAIN videos :
                                       /\ videos[id].duration \notin {NullNum, 0}
                                       /\ videos[id].deleted # TRUE
                                       /\ videos[id].hidden # TRUE })

handleFindTranscoded ==
  /\ tagLibrary(transcodedToTag(videos))
  /\ isProcessing' = FALSE
  /\ totalToProcess' = Cardinality(DOMAIN videos)
  /\ processedCount' = Cardinality(DOMAIN videos)

handleResetDuplicates ==
  /\ tagLibrary(duplicatesToReset(videos))
  /\ UNCHANGED << isProcessing, totalToProcess, processedCount >>

\* ------------------------------------------------------------ the playlist
\* the identifiers of a sequence of records or of a map id -> record
includesId(ids, videoId) == \E i \in 1..Len(ids) : ids[i] = videoId

handleAddToPlaylist(videoId) ==
  /\ videoId \in DOMAIN videos
  /\ ~includesId(playlist, videoId)
  /\ playlist' = Append(playlist, videoId)
  /\ UNCHANGED << appVars, scrubCache, previewVars, reset, importLog, tagLog, view, editLog >>

handleClearPlaylist ==
  /\ playlist # << >>
  /\ playlist' = << >>
  /\ UNCHANGED << appVars, scrubCache, previewVars, reset, importLog, tagLog, view, editLog >>

\* a JSON value of a playlist file: a string (the identifier it spells) or a
\* number
JsonString(id) == [ type |-> "string", value |-> id ]
JsonNumber(n) == [ type |-> "number", value |-> n ]

\* the text of a playlist file: whether JSON.parse accepts it, whether the
\* value is an array, and the elements of the array
PlaylistFile(parses, isArray, items) ==
  [ parses |-> parses, isArray |-> isArray, items |-> items ]

MsgImportInvalid == "Invalid playlist file format."
MsgImportFailed == "Failed to import playlist."
MsgImported(n) == "Imported " \o ToString(n) \o " videos to playlist."

\* Array.isArray(importedIds) && importedIds.every(id => typeof id === 'string')
isStringArray(file) ==
  /\ file.isArray
  /\ \A i \in 1..Len(file.items) : file.items[i].type = "string"

\* a variant that keeps every imported identifier
validIdsAll(items, vs) == [i \in 1..Len(items) |-> items[i].value]

\* importedIds.filter(id => videos.some(v => v.id === id))
validIds(items, vs) ==
  LET kept == SelectSeq(items, LAMBDA item : item.value \in DOMAIN vs)
  IN  [i \in 1..Len(kept) |-> kept[i].value]

\* history: the imports so far, the file of the last one, the playlist before
\* it and the message it showed
NoImportLog == [ count |-> 0, file |-> << >>, before |-> << >>, message |-> "" ]

\* the onchange handler of handleImportPlaylist for the chosen file
handleImportPlaylist(file) ==
  /\ importLog.count < MaxImports
  /\ IF ~file.parses
     THEN /\ UNCHANGED playlist
          /\ importLog' = [ count |-> importLog.count + 1, file |-> file,
                            before |-> playlist, message |-> MsgImportFailed ]
     ELSE IF isStringArray(file)
          THEN /\ playlist' = validIds(file.items, videos)
               /\ importLog' = [ count |-> importLog.count + 1, file |-> file,
                                 before |-> playlist,
                                 message |-> MsgImported(Len(validIds(file.items, videos))) ]
          ELSE /\ UNCHANGED playlist
               /\ importLog' = [ count |-> importLog.count + 1, file |-> file,
                                 before |-> playlist, message |-> MsgImportInvalid ]
  /\ UNCHANGED << appVars, scrubCache, previewVars, reset, tagLog, view, editLog >>

\* ----------------------------------------------------- handleResetDatabase
IdleReset == [ pc |-> "idle", count |-> 0 ]

\* Reset Database of the settings menu, which opens when there are records:
\* dbService.clearAllData is issued, one transaction clears the three stores
handleResetDatabase ==
  /\ DOMAIN videos # {}
  /\ reset.pc = "idle"
  /\ reset.count < MaxResets
  /\ dbVideos' = << >>
  /\ dbThumbs' = << >>
  /\ dbTimeline' = << >>
  /\ reset' = [ pc |-> "clearing", count |-> reset.count + 1 ]
  /\ userMeta' = << >>
  /\ lastPass' = NoPass
  /\ beforeMissing' = << >>
  /\ commitLog' = NoCommit
  /\ UNCHANGED << videos, fileMapRef, progressVars, uiVars, histVars, scanVars,
                  pipe, clockVars, scansLeft, editsLeft, cacheVars, txLog, pipeLog,
                  viewers, regen, nextStrip, regenLog, playlist, importLog, tagLog, view,
                  editLog >>

\* the stores are cleared: the state of the App is emptied
resetDatabaseCleared ==
  /\ reset.pc = "clearing"
  /\ videos' = << >>
  /\ fileMapRef' = << >>
  /\ playlist' = << >>
  /\ undoStack' = << >>
  /\ redoStack' = << >>
  /\ isFolderSelected' = FALSE
  /\ reset' = [reset EXCEPT !.pc = "idle"]
  /\ commitLog' = NoCommit
  /\ UNCHANGED << storeVars, progressVars, isBatchEditMode, statusFilters, scanVars,
                  pipe, clockVars, scansLeft, editsLeft, cacheVars, userMeta,
                  syncHist, pipeLog, previewVars, importLog, tagLog, view >>
  /\ editLog' = NoEditLog

\* ------------------------------------------- filters, search and pages
\* selectedTags, searchQuery and currentPage as useState initialises them
NoView == [ selectedTags |-> << >>, searchQuery |-> "", currentPage |-> 1 ]

\* what a handler of the header leaves alone
headerFrame ==
  << storeVars, videos, fileMapRef, progressVars, isBatchEditMode, isFolderSelected,
     histVars, scanVars, pipe, clockVars, scansLeft, editsLeft, nCacheOps, userMeta,
     syncHist, commitLog, pipeLog, previewVars, playlist, reset, importLog, tagLog,
     editLog >>

\* handleClearStatusFilters: a new Map, so both effects run
handleClearStatusFilters ==
  /\ statusFilters' = << >>
  /\ view' = pageReset(view)
  /\ scrubCache' = cacheOnViewChange(scrubCache)
  /\ cacheLog' = noteViewChange(cacheLog, scrubCache)
  /\ UNCHANGED headerFrame

handleResetFilters ==
  /\ statusFilters' = << >>
  /\ view' = pageReset([view EXCEPT !.selectedTags = << >>, !.searchQuery = ""])
  /\ scrubCache' = cacheOnViewChange(scrubCache)
  /\ cacheLog' = noteViewChange(cacheLog, scrubCache)
  /\ UNCHANGED headerFrame

\* onSetSelectedTags(stagedTags) when the tag menu closes: a new array
setSelectedTags(tags) ==
  /\ view' = pageReset([view EXCEPT !.selectedTags = tags])
  /\ scrubCache' = cacheOnViewChange(scrubCache)
  /\ cacheLog' = noteViewChange(cacheLog, scrubCache)
  /\ UNCHANGED << headerFrame, statusFilters >>

\* onSearchChange(query): the same string renders nothing anew
setSearchQuery(query) ==
  IF query = view.searchQuery
  THEN UNCHANGED vars
  ELSE /\ view' = pageReset([view EXCEPT !.searchQuery = query])
       /\ scrubCache' = cacheOnViewChange(scrubCache)
       /\ cacheLog' = noteViewChange(cacheLog, scrubCache)
       /\ UNCHANGED << headerFrame, statusFilters >>

\* onPageChange(page): the same page renders nothing anew
setCurrentPage(page) ==
  IF page = view.currentPage
  THEN UNCHANGED vars
  ELSE /\ view' = [view EXCEPT !.currentPage = page]
       /\ scrubCache' = cacheOnViewChange(scrubCache)
       /\ cacheLog' = noteViewChange(cacheLog, scrubCache)
       /\ UNCHANGED << headerFrame, statusFilters >>

\* ---------------------------------------------------------- a new session
\* the page is loaded anew (after a crash, or the tab closed and opened): the
\* state of the App is its initial state, initApp reads the records, the
\* filters and the playlist come back from localStorage; the stores keep what
\* was written
reloadApp ==
  /\ videos' = getAllVideos(dbVideos)
  /\ fileMapRef' = << >>
  /\ isProcessing' = FALSE
  /\ cancelProcessingRef' = FALSE
  /\ processedCount' = 0
  /\ totalToProcess' = 0
  /\ isBatchEditMode' = FALSE
  /\ isFolderSelected' = FALSE
  /\ undoStack' = << >>
  /\ redoStack' = << >>
  /\ scrubCache' = << >>
  /\ scanPc' = "idle"
  /\ existingVideos' = << >>
  /\ videosForThumbGen' = << >>
  /\ scanLoaded' = << >>
  /\ pipe' = [r \in Runs |-> IdlePipe]
  /\ viewers' = NoViewers
  /\ regen' = IdleRegen
  /\ reset' = [reset EXCEPT !.pc = "idle"]
  /\ commitLog' = NoCommit
  /\ cacheLog' = NoCacheLog
  /\ pipeLog' = NoPipeLog
  /\ view' = NoView
  /\ editLog' = NoEditLog
  /\ UNCHANGED << storeVars, dbTimeline, statusFilters, playlist, clockVars,
                  scansLeft, editsLeft, nCacheOps, userMeta, syncHist, nextStrip,
                  regenLog, importLog, tagLog >>

\* ------------------------------------------------------- specifications
Init ==
  /\ dbVideos = << >>
  /\ dbThumbs = << >>
  /\ videos = << >>
  /\ fileMapRef = << >>
  /\ isProcessing = FALSE
  /\ cancelProcessingRef = FALSE
  /\ processedCount = 0
  /\ totalToProcess = 0
  /\ isBatchEditMode = FALSE
  /\ isFolderSelected = FALSE
  /\ statusFilters = << >>
  /\ undoStack = << >>
  /\ redoStack = << >>
  /\ scrubCache = << >>
  /\ scanPc = "idle"
  /\ existingVideos = << >>
  /\ videosForThumbGen = << >>
  /\ scanLoaded = << >>
  /\ pipe = [r \in Runs |-> IdlePipe]
  /\ nextId = 1
  /\ now = 1
  /\ scansLeft = MaxScans
  /\ editsLeft = MaxSyncEdits
  /\ nCacheOps = 0
  /\ userMeta = << >>
  /\ lastPass = NoPass
  /\ beforeMissing = << >>
  /\ commitLog = NoCommit
  /\ cacheLog = NoCacheLog
  /\ pipeLog = NoPipeLog
  /\ dbTimeline = << >>
  /\ viewers = NoViewers
  /\ regen = IdleRegen
  /\ nextStrip = 1
  /\ regenLog = NoRegenLog
  /\ txLog = NoTxLog
  /\ playlist = << >>
  /\ reset = IdleReset
  /\ importLog = NoImportLog
  /\ tagLog = NoTagLog
  /\ view = NoView
  /\ editLog = NoEditLog

\* a user edit of a displayed record
UserEdit ==
  /\ isFolderSelected
  /\ \E i \in 1..Len(displayedIds(videos, statusFilters)) :
       \E u \in CardUpdates(videos[displayedIds(videos, statusFilters)[i]]) :
         handleUpdateVideo(u)

\* no pass and no pipeline run is under way
Quiescent == scanPc = "idle" /\ \A r \in Runs : pipe[r].pc = "idle"

\* the steps of a pass and of a pipeline run once started
Background ==
  \/ scanFilesPlan
  \/ scanFilesSaved
  \/ scanFilesDone
  \/ \E r \in Runs : \E t \in Images \cup {Null} : pipeProbeDone(r, t)
  \/ \E r \in Runs : pipeWriteDone(r)
  \/ \E r \in Runs : pipeReloadDone(r)

\* synchronisation and pipeline with user edits in between; a folder is
\* selected when no pipeline run is under way
Next ==
  \/ \E files \in FileSets : Quiescent /\ handleFilesSelected(files)
  \/ Background
  \/ cancelProcessing
  \/ UserEdit
  \/ handleUnhideAllVideos

Spec == Init /\ [][Next]_vars

\* the edit history: one folder selection, then edits, undos and redos made
\* while no pass and no pipeline run is under way
InitHist ==
  /\ dbVideos = << >>
  /\ dbThumbs = << >>
  /\ videos = << >>
  /\ fileMapRef = << >>
  /\ isProcessing = FALSE
  /\ cancelProcessingRef = FALSE
  /\ processedCount = 0
  /\ totalToProcess = 0
  /\ isBatchEditMode = FALSE
  /\ isFolderSelected = FALSE
  /\ statusFilters = << >>
  /\ undoStack = << >>
  /\ redoStack = << >>
  /\ scrubCache = << >>
  /\ scanPc = "idle"
  /\ existingVideos = << >>
  /\ videosForThumbGen = << >>
  /\ scanLoaded = << >>
  /\ pipe = [r \in Runs |-> IdlePipe]
  /\ nextId = 1
  /\ now = 1
  /\ scansLeft = 1
  /\ editsLeft = MaxEdits
  /\ nCacheOps = 0
  /\ userMeta = << >>
  /\ lastPass = NoPass
  /\ beforeMissing = << >>
  /\ commitLog = NoCommit
  /\ cacheLog = NoCacheLog
  /\ pipeLog = NoPipeLog
  /\ dbTimeline = << >>
  /\ viewers = NoViewers
  /\ regen = IdleRegen
  /\ nextStrip = 1
  /\ regenLog = NoRegenLog
  /\ txLog = NoTxLog
  /\ playlist = << >>
  /\ reset = IdleReset
  /\ importLog = NoImportLog
  /\ tagLog = NoTagLog
  /\ view = NoView
  /\ editLog = NoEditLog

\* the folders as first written, none of their files modified since
FreshFolders == { files \in FileSets : \A p \in DOMAIN files : files[p].lastModified = 1 }

NextHist ==
  \/ \E files \in FreshFolders : Quiescent /\ handleFilesSelected(files)
  \/ Background
  \/ Quiescent /\ UserEdit
  \/ Quiescent /\ handleUndo
  \/ Quiescent /\ handleRedo
  \/ \E b \in BOOLEAN : handleBatchEditModeChange(b)
  \/ \E f \in ToggledFilters : handleStatusFilterToggle(f)

SpecHist == InitHist /\ [][NextHist]_vars

\* the pipeline with folder selections made at any time, a run of an earlier
\* pass under way or not: the header stays usable while the status bar shows
InitRuns ==
  /\ dbVideos = << >>
  /\ dbThumbs = << >>
  /\ videos = << >>
  /\ fileMapRef = << >>
  /\ isProcessing = FALSE
  /\ cancelProcessingRef = FALSE
  /\ processedCount = 0
  /\ totalToProcess = 0
  /\ isBatchEditMode = FALSE
  /\ isFolderSelected = FALSE
  /\ statusFilters = << >>
  /\ undoStack = << >>
  /\ redoStack = << >>
  /\ scrubCache = << >>
  /\ scanPc = "idle"
  /\ existingVideos = << >>
  /\ videosForThumbGen = << >>
  /\ scanLoaded = << >>
  /\ pipe = [r \in Runs |-> IdlePipe]
  /\ nextId = 1
  /\ now = 1
  /\ scansLeft = MaxOverlapScans
  /\ editsLeft = 0
  /\ nCacheOps = 0
  /\ userMeta = << >>
  /\ lastPass = NoPass
  /\ beforeMissing = << >>
  /\ commitLog = NoCommit
  /\ cacheLog = NoCacheLog
  /\ pipeLog = NoPipeLog
  /\ dbTimeline = << >>
  /\ viewers = NoViewers
  /\ regen = IdleRegen
  /\ nextStrip = 1
  /\ regenLog = NoRegenLog
  /\ txLog = NoTxLog
  /\ playlist = << >>
  /\ reset = IdleReset
  /\ importLog = NoImportLog
  /\ tagLog = NoTagLog
  /\ view = NoView
  /\ editLog = NoEditLog

\* folders of video files: a.mp4 and a file without extension
RunFolders ==
  UNION { [ps -> {[size |-> 10, lastModified |-> 1]}] : ps \in (SUBSET {1, 4}) \ {{}} }

NextRuns ==
  \/ \E files \in RunFolders : handleFilesSelected(files)
  \/ Background
  \/ \E failAt \in 1..NumPaths : scanFilesSaveFails(failAt)
  \/ cancelProcessing

SpecRuns == InitRuns /\ [][NextRuns]_vars

\* regeneration on demand next to the timeline loads of the card and of the
\* player, with folder selections made while no pipeline run is under way
InitRegen ==
  /\ dbVideos = << >>
  /\ dbThumbs = << >>
  /\ videos = << >>
  /\ fileMapRef = << >>
  /\ isProcessing = FALSE
  /\ cancelProcessingRef = FALSE
  /\ processedCount = 0
  /\ totalToProcess = 0
  /\ isBatchEditMode = FALSE
  /\ isFolderSelected = FALSE
  /\ statusFilters = << >>
  /\ undoStack = << >>
  /\ redoStack = << >>
  /\ scrubCache = << >>
  /\ scanPc = "idle"
  /\ existingVideos = << >>
  /\ videosForThumbGen = << >>
  /\ scanLoaded = << >>
  /\ pipe = [r \in Runs |-> IdlePipe]
  /\ nextId = 1
  /\ now = 1
  /\ scansLeft = MaxRegenScans
  /\ editsLeft = 0
  /\ nCacheOps = 0
  /\ userMeta = << >>
  /\ lastPass = NoPass
  /\ beforeMissing = << >>
  /\ commitLog = NoCommit
  /\ cacheLog = NoCacheLog
  /\ pipeLog = NoPipeLog
  /\ dbTimeline = << >>
  /\ viewers = NoViewers
  /\ regen = IdleRegen
  /\ nextStrip = 1
  /\ regenLog = NoRegenLog
  /\ txLog = NoTxLog
  /\ playlist = << >>
  /\ reset = IdleReset
  /\ importLog = NoImportLog
  /\ tagLog = NoTagLog
  /\ view = NoView
  /\ editLog = NoEditLog

\* a folder holding a.mp4, and a folder holding only a file without extension
RegenFolders ==
  { [p \in {1} |-> [size |-> 10, lastModified |-> 1]],
    [p \in {4} |-> [size |-> 10, lastModified |-> 1]] }

\* the steps of the timeline loads and of a regeneration once started
Previews ==
  \/ \E w \in Viewers : loadTimelineRead(w)
  \/ \E w \in Viewers : \E ok \in BOOLEAN : loadTimelineGenerated(w, ok)
  \/ \E w \in Viewers : loadTimelineStored(w)
  \/ regenDeleted
  \/ \E t \in Images \cup {Null} : regenProbeDone(t)
  \/ regenWritten
  \/ regenReloaded

NextRegen ==
  \/ \E files \in RegenFolders : Quiescent /\ regen.pc = "idle" /\ handleFilesSelected(files)
  \/ Background
  \/ \E w \in Viewers : \E id \in DOMAIN videos :
       Quiescent /\ loadTimelineThumbnails(w, id)
  \/ \E id \in DOMAIN videos : handleRegenerateThumbnails(id)
  \/ Previews
  \/ cancelProcessing

SpecRegen == InitRegen /\ [][NextRegen]_vars

\* the playlist and the database reset next to passes, pipeline runs, edits,
\* undo, redo and the timeline loads of the player
InitList ==
  /\ dbVideos = << >>
  /\ dbThumbs = << >>
  /\ videos = << >>
  /\ fileMapRef = << >>
  /\ isProcessing = FALSE
  /\ cancelProcessingRef = FALSE
  /\ processedCount = 0
  /\ totalToProcess = 0
  /\ isBatchEditMode = FALSE
  /\ isFolderSelected = FALSE
  /\ statusFilters = << >>
  /\ undoStack = << >>
  /\ redoStack = << >>
  /\ scrubCache = << >>
  /\ scanPc = "idle"
  /\ existingVideos = << >>
  /\ videosForThumbGen = << >>
  /\ scanLoaded = << >>
  /\ pipe = [r \in Runs |-> IdlePipe]
  /\ nextId = 1
  /\ now = 1
  /\ scansLeft = MaxListScans
  /\ editsLeft = 0
  /\ nCacheOps = 0
  /\ userMeta = << >>
  /\ lastPass = NoPass
  /\ beforeMissing = << >>
  /\ commitLog = NoCommit
  /\ cacheLog = NoCacheLog
  /\ pipeLog = NoPipeLog
  /\ dbTimeline = << >>
  /\ viewers = NoViewers
  /\ regen = IdleRegen
  /\ nextStrip = 1
  /\ regenLog = NoRegenLog
  /\ txLog = NoTxLog
  /\ playlist = << >>
  /\ reset = IdleReset
  /\ importLog = NoImportLog
  /\ tagLog = NoTagLog
  /\ view = NoView
  /\ editLog = NoEditLog

\* the playlist files the user may choose: text that is not JSON, an object,
\* and arrays of strings and numbers; "9" is the identifier of no record
PlaylistFiles ==
  { PlaylistFile(FALSE, FALSE, << >>),
    PlaylistFile(TRUE, FALSE, << >>),
    PlaylistFile(TRUE, TRUE, << >>),
    PlaylistFile(TRUE, TRUE, << JsonString(2), JsonString(9), JsonString(1) >>),
    PlaylistFile(TRUE, TRUE, << JsonString(1), JsonString(1) >>),
    PlaylistFile(TRUE, TRUE, << JsonString(9) >>),
    PlaylistFile(TRUE, TRUE, << JsonString(1), JsonNumber(2) >>),
    PlaylistFile(TRUE, TRUE, << JsonNumber(1) >>) }

NextList ==
  \/ \E files \in RunFolders : Quiescent /\ handleFilesSelected(files)
  \/ Background
  \/ \E id \in DOMAIN videos : handleAddToPlaylist(id)
  \/ handleClearPlaylist
  \/ \E file \in PlaylistFiles : handleImportPlaylist(file)

SpecList == InitList /\ [][NextList]_vars

\* the database reset next to passes, pipeline runs, edits, undo, redo, the
\* playlist and the timeline loads of the player
InitReset ==
  /\ dbVideos = << >>
  /\ dbThumbs = << >>
  /\ videos = << >>
  /\ fileMapRef = << >>
  /\ isProcessing = FALSE
  /\ cancelProcessingRef = FALSE
  /\ processedCount = 0
  /\ totalToProcess = 0
  /\ isBatchEditMode = FALSE
  /\ isFolderSelected = FALSE
  /\ statusFilters = << >>
  /\ undoStack = << >>
  /\ redoStack = << >>
  /\ scrubCache = << >>
  /\ scanPc = "idle"
  /\ existingVideos = << >>
  /\ videosForThumbGen = << >>
  /\ scanLoaded = << >>
  /\ pipe = [r \in Runs |-> IdlePipe]
  /\ nextId = 1
  /\ now = 1
  /\ scansLeft = MaxResetScans
  /\ editsLeft = MaxResetEdits
  /\ nCacheOps = 0
  /\ userMeta = << >>
  /\ lastPass = NoPass
  /\ beforeMissing = << >>
  /\ commitLog = NoCommit
  /\ cacheLog = NoCacheLog
  /\ pipeLog = NoPipeLog
  /\ dbTimeline = << >>
  /\ viewers = NoViewers
  /\ regen = IdleRegen
  /\ nextStrip = 1
  /\ regenLog = NoRegenLog
  /\ txLog = NoTxLog
  /\ playlist = << >>
  /\ reset = IdleReset
  /\ importLog = NoImportLog
  /\ tagLog = NoTagLog
  /\ view = NoView
  /\ editLog = NoEditLog

\* the edits made next to the reset: the rating and the deleted flag of a card
ResetEdits(video) ==
  { [video EXCEPT !.rating = IF video.rating = 0 THEN 5 ELSE 0],
    [video EXCEPT !.deleted = ~video.deleted] }

NextReset ==
  \/ \E files \in RegenFolders :
       Quiescent /\ reset.pc = "idle" /\ handleFilesSelected(files)
  \/ Background
  \/ \E id \in Range(displayedIds(videos, statusFilters)) :
       \E u \in ResetEdits(videos[id]) :
         Quiescent /\ isFolderSelected /\ handleUpdateVideo(u)
  \/ Quiescent /\ handleUndo
  \/ Quiescent /\ handleRedo
  \/ \E id \in Range(displayedIds(videos, statusFilters)) :
       Quiescent /\ isFolderSelected /\ handleAddToPlaylist(id)
  \/ handleResetDatabase
  \/ resetDatabaseCleared
  \/ \E id \in DOMAIN videos : Quiescent /\ loadTimelineThumbnails("player", id)
  \/ loadTimelineRead("player")
  \/ \E ok \in BOOLEAN : loadTimelineGenerated("player", ok)
  \/ loadTimelineStored("player")

SpecReset == InitReset /\ [][NextReset]_vars

\* passes and pipeline runs that are cancelled or cut short by the end of the
\* session, each followed by a new selection of a folder
InitRecover ==
  /\ dbVideos = << >>
  /\ dbThumbs = << >>
  /\ videos = << >>
  /\ fileMapRef = << >>
  /\ isProcessing = FALSE
  /\ cancelProcessingRef = FALSE
  /\ processedCount = 0
  /\ totalToProcess = 0
  /\ isBatchEditMode = FALSE
  /\ isFolderSelected = FALSE
  /\ statusFilters = << >>
  /\ undoStack = << >>
  /\ redoStack = << >>
  /\ scrubCache = << >>
  /\ scanPc = "idle"
  /\ existingVideos = << >>
  /\ videosForThumbGen = << >>
  /\ scanLoaded = << >>
  /\ pipe = [r \in Runs |-> IdlePipe]
  /\ nextId = 1
  /\ now = 1
  /\ scansLeft = MaxRecoverScans
  /\ editsLeft = 0
  /\ nCacheOps = 0
  /\ userMeta = << >>
  /\ lastPass = NoPass
  /\ beforeMissing = << >>
  /\ commitLog = NoCommit
  /\ cacheLog = NoCacheLog
  /\ pipeLog = NoPipeLog
  /\ dbTimeline = << >>
  /\ viewers = NoViewers
  /\ regen = IdleRegen
  /\ nextStrip = 1
  /\ regenLog = NoRegenLog
  /\ txLog = NoTxLog
  /\ playlist = << >>
  /\ reset = IdleReset
  /\ importLog = NoImportLog
  /\ tagLog = NoTagLog
  /\ view = NoView
  /\ editLog = NoEditLog

\* the folders of video files, and the folder of a.mp4 modified
RecoverFolders == RunFolders \cup { [p \in {1} |-> [size |-> 20, lastModified |-> 2]] }

NextRecover ==
  \/ \E files \in RecoverFolders : Quiescent /\ handleFilesSelected(files)
  \/ Background
  \/ cancelProcessing
  \/ reloadApp

SpecRecover == InitRecover /\ [][NextRecover]_vars

\* the awaits of a pass that has written its plan and of a run
Resuming ==
  \/ scanFilesSaved
  \/ scanFilesDone
  \/ \E r \in Runs : \E t \in Images \cup {Null} : pipeProbeDone(r, t)
  \/ \E r \in Runs : pipeWriteDone(r)
  \/ \E r \in Runs : pipeReloadDone(r)

\* the same, every such await resuming in the end unless the session ends
\* first: the requests to the store complete, and the media element of a probe
\* fires loadeddata and seeked, or error
FairRecover == SpecRecover /\ WF_vars(Resuming)

\* the overlapping passes and runs, every await of a pass that has written its
\* plan and of a run resuming in the end
FairRuns == SpecRuns /\ WF_vars(Resuming)

\* the edit history with writes that fail: one folder selection, then edits,
\* undos and redos, the write of one of them rejected
NextFail ==
  \/ \E files \in FreshFolders : Quiescent /\ handleFilesSelected(files)
  \/ Background
  \/ Quiescent /\ UserEdit
  \/ Quiescent /\ handleUndo
  \/ Quiescent /\ handleRedo
  \/ \E b \in BOOLEAN : handleBatchEditModeChange(b)
  \/ /\ Quiescent
     /\ isFolderSelected
     /\ \E i \in 1..Len(displayedIds(videos, statusFilters)) :
          \E u \in CardUpdates(videos[displayedIds(videos, statusFilters)[i]]) :
            handleUpdateVideoFails(u)
  \/ Quiescent /\ handleUndoFails
  \/ Quiescent /\ handleRedoFails

SpecFail == InitHist /\ [][NextFail]_vars

\* the classification of the files: folders of a.mp4, b.JPG, c.mkv, d and
\* e.OGV, none of them modified between the selections
NamedPaths == {1, 2, 3, 4, 6}
NameFolders ==
  { [p \in ps |-> [size |-> 10, lastModified |-> 1]] :
      ps \in { NamedPaths, {1, 2, 3}, {3, 4, 6} } }

NextNames ==
  \/ \E files \in NameFolders : Quiescent /\ handleFilesSelected(files)
  \/ Background
  \/ cancelProcessing

SpecNames == Init /\ [][NextNames]_vars

\* the preview cache next to the filters, the search and the pages of the
\* grid: the cards get and set strips while the header changes what is shown
TagFilters == { << >>, << TagArt >> }
SearchQueries == { "", "a" }

NextView ==
  \/ \E k \in 1..NumCacheKeys : scrubCacheGet(k)
  \/ \E k \in 1..NumCacheKeys : \E v \in Strips : scrubCacheSet(k, v)
  \/ \E k \in 1..NumCacheKeys : scrubCacheDelete(k)
  \/ \E f \in ToggledFilters : handleStatusFilterToggle(f)
  \/ handleClearStatusFilters
  \/ handleResetFilters
  \/ \E tags \in TagFilters : setSelectedTags(tags)
  \/ \E query \in SearchQueries : setSearchQuery(query)
  \/ \E page \in 1..MaxPage : setCurrentPage(page)

SpecView == Init /\ [][NextView]_vars

\* the preview cache on its own, from the state in which maxSize - 1 strips
\* have been loaded one after the other
FilledCache == [i \in 1..(maxSize - 1) |-> [key |-> 1000 + i, value |-> "s1"]]

InitCache ==
  /\ dbVideos = << >>
  /\ dbThumbs = << >>
  /\ videos = << >>
  /\ fileMapRef = << >>
  /\ isProcessing = FALSE
  /\ cancelProcessingRef = FALSE
  /\ processedCount = 0
  /\ totalToProcess = 0
  /\ isBatchEditMode = FALSE
  /\ isFolderSelected = FALSE
  /\ statusFilters = << >>
  /\ undoStack = << >>
  /\ redoStack = << >>
  /\ scrubCache = FilledCache
  /\ scanPc = "idle"
  /\ existingVideos = << >>
  /\ videosForThumbGen = << >>
  /\ scanLoaded = << >>
  /\ pipe = [r \in Runs |-> IdlePipe]
  /\ nextId = 1
  /\ now = 1
  /\ scansLeft = 0
  /\ editsLeft = 0
  /\ nCacheOps = 0
  /\ userMeta = << >>
  /\ lastPass = NoPass
  /\ beforeMissing = << >>
  /\ commitLog = NoCommit
  /\ cacheLog = [NoCacheLog EXCEPT
                   !.tick = maxSize - 1,
                   !.access = [k \in cacheKeys(FilledCache) |-> k - 1000]]
  /\ pipeLog = NoPipeLog
  /\ dbTimeline = << >>
  /\ viewers = NoViewers
  /\ regen = IdleRegen
  /\ nextStrip = 1
  /\ regenLog = NoRegenLog
  /\ txLog = NoTxLog
  /\ playlist = << >>
  /\ reset = IdleReset
  /\ importLog = NoImportLog
  /\ tagLog = NoTagLog
  /\ view = NoView
  /\ editLog = NoEditLog

NextCache ==
  \/ \E k \in KeysInUse(scrubCache) : scrubCacheGet(k)
  \/ \E k \in KeysInUse(scrubCache) : \E v \in Strips : scrubCacheSet(k, v)
  \/ \E k \in KeysInUse(scrubCache) : scrubCacheDelete(k)
  \/ scrubCacheClear

SpecCache == InitCache /\ [][NextCache]_vars

\* tags: their edits on the cards and in the player, the settings actions that
\* tag the library, undo and redo
InitTags ==
  /\ dbVideos = << >>
  /\ dbThumbs = << >>
  /\ videos = << >>
  /\ fileMapRef = << >>
  /\ isProcessing = FALSE
  /\ cancelProcessingRef = FALSE
  /\ processedCount = 0
  /\ totalToProcess = 0
  /\ isBatchEditMode = FALSE
  /\ isFolderSelected = FALSE
  /\ statusFilters = << >>
  /\ undoStack = << >>
  /\ redoStack = << >>
  /\ scrubCache = << >>
  /\ scanPc = "idle"
  /\ existingVideos = << >>
  /\ videosForThumbGen = << >>
  /\ scanLoaded = << >>
  /\ pipe = [r \in Runs |-> IdlePipe]
  /\ nextId = 1
  /\ now = 1
  /\ scansLeft = 1
  /\ editsLeft = MaxTagEdits
  /\ nCacheOps = 0
  /\ userMeta = << >>
  /\ lastPass = NoPass
  /\ beforeMissing = << >>
  /\ commitLog = NoCommit
  /\ cacheLog = NoCacheLog
  /\ pipeLog = NoPipeLog
  /\ dbTimeline = << >>
  /\ viewers = NoViewers
  /\ regen = IdleRegen
  /\ nextStrip = 1
  /\ regenLog = NoRegenLog
  /\ txLog = NoTxLog
  /\ playlist = << >>
  /\ reset = IdleReset
  /\ importLog = NoImportLog
  /\ tagLog = NoTagLog
  /\ view = NoView
  /\ editLog = NoEditLog

\* folders of two files of one size: a.mp4 with a file without extension, and
\* a.mp4 with a.mkv
TagFolders ==
  { [p \in {1, 4} |-> [size |-> 10, lastModified |-> 1]],
    [p \in {1, 5} |-> [size |-> 10, lastModified |-> 1]] }

\* the texts the user types into the input of a tag menu, trimmed
TypedTags == { NoTag, TagArt, TagArtLower }

\* allTags: the tags of the library
allTags(vs) == UNION { Range(vs[id].tags) : id \in DOMAIN vs }

\* the tags staged in a menu: the record's own or those added by the input,
\* which sorts them, then the tags of the library toggled on in any order
StagedTags(vs) ==
  LET universe == { TagArt, TagDuplicate, TagTranscoded, TagArtLower }
      upTo2 == { << >> } \cup { << a >> : a \in universe }
               \cup { << p[1], p[2] >> : p \in { q \in universe \X universe : q[1] # q[2] } }
  IN  { s \in upTo2 :
          \E k \in 0..Len(s) :
            /\ \A i \in 1..(k - 1) : s[i] < s[i + 1]
            /\ \A i \in (k + 1)..Len(s) : s[i] \in allTags(vs) }

\* the tags staged in the player's menu: its input lowers the text it adds
EditorStagedTags(vs) ==
  { s \in StagedTags(vs) : \A i \in 1..Len(s) : s[i] \in allTags(vs) \cup {TagArtLower} }

\* a card or the player is open on a record and the history holds fewer than
\* MaxTagHistory entries
TagEditable ==
  /\ Quiescent
  /\ isFolderSelected
  /\ editsLeft > 0
  /\ Len(undoStack) + Len(redoStack) < MaxTagHistory

NextTags ==
  \/ \E files \in TagFolders : Quiescent /\ handleFilesSelected(files)
  \/ Background
  \/ /\ TagEditable
     /\ \E id \in Range(displayedIds(videos, statusFilters)) :
          \E staged \in StagedTags(videos) : \E typed \in TypedTags :
            cardApplyTags(videos[id], staged, typed)
  \/ /\ TagEditable
     /\ \E id \in Range(displayedIds(videos, statusFilters)) :
          \E staged \in EditorStagedTags(videos) : \E typed \in TypedTags :
            editorApplyTags(videos[id], staged, typed)
  \/ /\ TagEditable
     /\ \E id \in Range(displayedIds(videos, statusFilters)) :
          \E tag \in Range(videos[id].tags) : removeTag(videos[id], tag)
  \/ /\ Quiescent
     /\ \E probes \in [{ id \in DOMAIN videos :
                           videos[id].duration \in {NullNum, 0} /\ videos[id].isPlayable }
                         -> DurationProbes] :
          handleScanDurations(probes)
  \/ Quiescent /\ DOMAIN videos # {} /\ handleFindDuplicates
  \/ Quiescent /\ DOMAIN videos # {} /\ handleFindTranscoded
  \/ Quiescent /\ DOMAIN videos # {} /\ handleResetDuplicates
  \/ Quiescent /\ handleUndo
  \/ Quiescent /\ handleRedo
  \/ \E b \in BOOLEAN : handleBatchEditModeChange(b)

SpecTags == InitTags /\ [][NextTags]_vars

\* ------------------------------------------------------------------ claims
\* the step in which a pass writes its plan to the store
ScanWrites == scanPc = "reading" /\ scanPc' \in {"saving", "loading"}

\* the records the pass read whose path is in the observed folder
Persisting ==
  { id \in (DOMAIN existingVideos) \cap (DOMAIN dbVideos) :
      existingVideos[id].relativePath \in DOMAIN fileMapRef }

\* C1: a sync pass leaves rating, tags, hearted, hidden, deleted, title and
\* currentTime of every record whose path is stored and observed as they were
\* stored before the pass, whatever branch handles it and whatever its extension
C1_PassKeepsUserMetadata ==
  [][ScanWrites =>
       \A id \in Persisting :
         userFieldsOf(dbVideos'[id]) \in
           { userFieldsOf(existingVideos[id]), userFieldsOf(dbVideos[id]) }]_vars

\* C2: after any interleaving of passes, pipeline writes and user edits every
\* stored record holds the user metadata last entered for it
C2_UserMetadataNeverLost ==
  \A id \in DOMAIN dbVideos :
    id \in DOMAIN userMeta /\ userFieldsOf(dbVideos[id]) = userMeta[id]

\* the records the pass read as not found and now observes again, nothing
\* having changed what they held when they went missing
Reobserved ==
  { id \in Persisting :
      /\ existingVideos[id].notFound
      /\ id \in DOMAIN beforeMissing
      /\ keptFieldsOf(existingVideos[id]) = beforeMissing[id]
      /\ keptFieldsOf(dbVideos[id]) = beforeMissing[id] }

\* C3: a pass leaves a stored record whose path it does not observe with
\* notFound = TRUE; a later pass that observes the path again leaves the same
\* record (same id, no second record of the path) with notFound = FALSE and
\* with rating, tags, seen, hearted, hidden, deleted, title, currentTime,
\* timesOpened and dateAdded as they were before it went missing
C3_MissingThenReobserved ==
  [][ScanWrites =>
       /\ \A id \in (DOMAIN existingVideos) \cap (DOMAIN dbVideos) :
            existingVideos[id].relativePath \notin DOMAIN fileMapRef
              => dbVideos'[id].notFound
       /\ \A id \in Reobserved :
            /\ ~dbVideos'[id].notFound
            /\ \A other \in DOMAIN dbVideos' :
                 dbVideos'[other].relativePath = dbVideos'[id].relativePath
                   => other = id
            /\ keptFieldsOf(dbVideos'[id]) = beforeMissing[id]]_vars

\* C4: a second pass over the folder of the pass before it, nothing but that
\* pass and its pipeline run having written in between, changes no field of
\* any stored record
C4_SecondPassChangesNothing ==
  [][(ScanWrites /\ lastPass.some /\ lastPass.clean /\ lastPass.files = fileMapRef)
       => dbVideos' = dbVideos]_vars

\* the records of the entry the last commit pushed
entryIds == { commitLog.ids[i] : i \in 1..Len(commitLog.ids) }

\* the entry of the records ids with their states in vs
entryOf(ids, vs) == [i \in 1..Len(ids) |-> [videoId |-> ids[i], state |-> vs[ids[i]]]]

\* C5: handleUndo after a commit leaves every record of the popped entry, in
\* memory and in the store, as it was before the commit, and the top of the
\* redo stack holds those records as they were just before the undo
C5_UndoRestoresSnapshot ==
  commitLog.stage = 2 =>
    /\ \A id \in entryIds :
         /\ videos[id] = commitLog.pre[id]
         /\ dbVideos[id] = videoMetadata(commitLog.pre[id])
    /\ redoStack # << >>
    /\ redoStack[Len(redoStack)] = entryOf(commitLog.ids, commitLog.post)
    /\ Len(redoStack) = Len(commitLog.postRedo) + 1
    /\ Len(undoStack) = Len(commitLog.postUndo) - 1

C5_Undone ==
  /\ commitLog.stage = 2
  /\ \E id \in entryIds : commitLog.pre[id] # commitLog.post[id]

\* C6: after commit, handleUndo, handleRedo every record of the entry, in
\* memory and in the store, is as the commit left it, and so are both stacks
C6_UndoRedoRoundTrip ==
  commitLog.stage = 3 =>
    /\ \A id \in entryIds :
         /\ videos[id] = commitLog.post[id]
         /\ dbVideos[id] = commitLog.postDb[id]
    /\ undoStack = commitLog.postUndo
    /\ redoStack = commitLog.postRedo

C6_Redone ==
  /\ commitLog.stage = 3
  /\ undoStack # << >>
  /\ \E id \in entryIds : commitLog.pre[id] # commitLog.post[id]

\* the step of a handleUpdateVideo call that changes a record
Commits ==
  /\ editsLeft' = editsLeft - 1
  /\ commitLog'.op = "edit"
  /\ videos' # videos

\* C7: a handleUpdateVideo call that changes a record pushes exactly one
\* entry onto the undo stack and leaves the redo stack empty
C7_CommitPushesOneEntry ==
  [][Commits =>
       /\ Len(undoStack') = Len(undoStack) + 1
       /\ SubSeq(undoStack', 1, Len(undoStack)) = undoStack
       /\ redoStack' = << >>]_vars

C7_CommitAfterUndo ==
  /\ commitLog.stage = 1
  /\ commitLog.dropped > 0
  /\ commitLog.pre # commitLog.post
  /\ redoStack = << >>

\* C8: a batch edit over the n displayed records gives each of them the
\* changed values and pushes one undo entry of their n snapshots; the undo
\* restores all n and pushes one redo entry of n pairs; the redo gives all n
\* the changed values again
C8_BatchEditOneEntry ==
  (commitLog.stage > 0 /\ commitLog.batch) =>
    LET n == Len(commitLog.ids)
        applied(vs) ==
          \A id \in entryIds : \A k \in DOMAIN vs[id] :
            vs[id][k] = IF k \in DOMAIN commitLog.changes
                        THEN commitLog.changes[k] ELSE commitLog.pre[id][k]
        top == commitLog.postUndo[Len(commitLog.postUndo)]
    IN  /\ applied(commitLog.post)
        /\ Len(top) = n
        /\ top = entryOf(commitLog.ids, commitLog.pre)
        /\ commitLog.stage = 1 => applied(videos)
        /\ commitLog.stage = 2 =>
             /\ \A id \in entryIds : videos[id] = commitLog.pre[id]
             /\ Len(redoStack) = Len(commitLog.postRedo) + 1
             /\ Len(redoStack[Len(redoStack)]) = n
        /\ commitLog.stage = 3 =>
             /\ applied(videos)
             /\ \A id \in entryIds : dbVideos[id] = videoMetadata(videos[id])

C8_BatchOfTwoRedone ==
  /\ commitLog.stage = 3
  /\ commitLog.batch
  /\ Len(commitLog.ids) = 2
  /\ \A id \in entryIds : commitLog.pre[id] # commitLog.post[id]

\* C9: the preview cache never holds more than maxSize entries
C9_CacheWithinCapacity == Len(scrubCache) <= maxSize

C9_FullAfterEviction ==
  /\ Len(scrubCache) = maxSize
  /\ cacheLog.evictions > 0

\* C10: the entry a set evicts is one whose last access, successful get or
\* set, is the oldest of all cached entries, and an entry a get has returned
\* is the newest entry right after the get and stays cached while older
\* entries are there to evict
C10_EvictsLeastRecentlyAccessed ==
  /\ cacheLog.evictions > 0 => cacheLog.evicted \in cacheLog.stalest
  /\ cacheLog.promoted # 0 => cacheLog.promoted \in cacheKeys(scrubCache)
  /\ cacheLog.got # Undefined =>
       scrubCache[Len(scrubCache)] = [key |-> cacheLog.promoted, value |-> cacheLog.got]

\* the runs of the pipeline with a probe in flight
Probing == { r \in Runs : pipe[r].pc = "probing" }

\* C11: the pipeline processes one record at a time: at any moment at most one
\* probe started by the pipeline is in flight, and when a run probes a record
\* the write of every record it probed before has completed
C11_OneRecordAtATime ==
  /\ Cardinality(Probing) <= 1
  /\ \A r \in Runs :
       pipe[r].pc = "probing" =>
         pipeLog.started[r] \ {pipe[r].idx} \subseteq pipeLog.written[r]

\* C12: once cancelProcessing is requested during a run, the record in hand is
\* still probed and written, and the run starts no further record, whatever
\* else starts meanwhile
C12_CancelAtRecordBoundary ==
  [][\A r \in pipeLog.cancelled :
       /\ (pipe[r].pc = "probing" /\ pipe'[r] # pipe[r]) =>
            /\ pipe'[r].pc = "writing"
            /\ pipe[r].list[pipe[r].idx].id \in DOMAIN dbVideos'
       /\ pipe[r].pc = "writing" => pipe'[r].pc # "probing"]_vars

\* the run r receives the result of its probe and issues the write
ProbeResolves(r) == pipe[r].pc = "probing" /\ pipe'[r].pc = "writing"

RunEnds(r) == pipe[r].pc = "reloading" /\ pipe'[r].pc = "idle"

\* C14: a run that was not asked to stop ends with every record of its list
\* processed, whichever probes failed, and with the processed count equal to
\* the total count
C14_RunProcessesWholeList ==
  [][\A r \in Runs :
       (RunEnds(r) /\ r \notin pipeLog.cancelled) =>
         /\ pipe[r].idx = Len(pipe[r].list) + 1
         /\ \A i \in 1..Len(pipe[r].list) :
              \/ i \in pipeLog.written[r]
              \/ pipe[r].list[i].relativePath \notin DOMAIN fileMapRef
         /\ processedCount = totalToProcess]_vars

\* the components that would answer a scrub over record id with the strip
ServedStrips(id) ==
  { viewers[w].localTimelineThumbnails :
      w \in { x \in Viewers : viewers[x].id = id /\ viewers[x].scrubStatus = "loaded" } }

\* C15: a regeneration requested for a record with an accessible file has
\* removed the timeline artifact and the cache entry the record had at the
\* request when the new thumbnail is generated, and from then on no scrub
\* over the record is answered with a strip that existed before the request
C15_RegenerationDropsStaleStrips ==
  [][/\ (regen.pc = "deleting" /\ regen'.pc = "generating") =>
          /\ getTimelineThumbnails(dbTimeline', regen.video.id) \notin regenLog.before
          /\ mapGet(scrubCache', regen.video.id) \notin regenLog.before
     /\ (regenLog'.accessible /\ regenLog'.invalidated) =>
          ServedStrips(regenLog.id)' \cap regenLog'.before = {}]_vars

\* a regeneration is requested for a record whose file is not in the folder
RegenUnavailable == regenLog'.count = regenLog.count + 1 /\ ~regenLog'.accessible

\* what such a request leaves alone: the stores, the cache and every other
\* record in memory
RegenUnavailableFrame ==
  /\ dbVideos' = dbVideos
  /\ dbThumbs' = dbThumbs
  /\ dbTimeline' = dbTimeline
  /\ scrubCache' = scrubCache
  /\ DOMAIN videos' = DOMAIN videos
  /\ \A id \in (DOMAIN videos) \ {regenLog'.id} : videos'[id] = videos[id]

\* C16 as stated: regenerating for an inaccessible file leaves the primary
\* thumbnail, the timeline artifact, the cache entry and isPlayable as they
\* were and appends a diagnostic text to the description of the record
C16_DiagnosticAppended ==
  [][RegenUnavailable =>
       /\ RegenUnavailableFrame
       /\ videos'[regenLog'.id] =
            [videos[regenLog'.id] EXCEPT
               !.description = @ \o RegenErrorMsg(videos[regenLog'.id])]]_vars

\* C16: regenerating for an inaccessible file leaves the primary thumbnail,
\* the timeline artifact, the cache entry, isPlayable and the stored record as
\* they were; the description of the record in memory is replaced by a
\* diagnostic text
C16_DiagnosticReplaces ==
  [][RegenUnavailable =>
       /\ RegenUnavailableFrame
       /\ videos'[regenLog'.id] =
            [videos[regenLog'.id] EXCEPT
               !.description = RegenErrorMsg(videos[regenLog'.id])]]_vars

\* the request has been made and answered with the diagnostic text, for a
\* record whose stored description is not empty
C16_UnavailableRequested ==
  /\ regenLog.count > 0
  /\ ~regenLog.accessible
  /\ regen.pc = "idle"
  /\ regenLog.id \in DOMAIN videos
  /\ videos[regenLog.id].description = RegenErrorMsg(videos[regenLog.id])
  /\ dbVideos[regenLog.id].description # ""

\* an edit is committed, undone or redone
HistoryWrites == undoStack' # undoStack \/ redoStack' # redoStack

\* C17: an upsert of a record without thumbnail payload (an edit, a probe that
\* returned null) leaves the primary thumbnails as they were, and the batch
\* writes of a pass, of a batch edit, of undo and of redo change neither the
\* primary thumbnails nor the timeline thumbnails
C17_ThumbnailsLeftAlone ==
  [][/\ (HistoryWrites \/ ScanWrites) =>
          dbThumbs' = dbThumbs /\ dbTimeline' = dbTimeline
     /\ \A r \in Runs :
          (ProbeResolves(r) /\ pipeLog'.thumbnail = Null) => dbThumbs' = dbThumbs]_vars

\* an edit of a record that has a primary thumbnail has been undone and redone
C17_RedoneWithThumbnail ==
  /\ commitLog.stage = 3
  /\ entryIds # {}
  /\ entryIds \subseteq DOMAIN dbThumbs

\* a batch write in which the put of a record fails
BatchWriteFails == txLog'.count = txLog.count + 1 /\ txLog'.failAt > 0

storedPaths(store) == { store[id].relativePath : id \in DOMAIN store }

Renamed(old, q) ==
  /\ ~dbVideos[old].notFound
  /\ dbVideos[old].relativePath \notin DOMAIN fileMapRef
  /\ q \in DOMAIN fileMapRef
  /\ q \notin storedPaths(dbVideos)
  /\ fileMapRef[q].size = dbVideos[old].fileSize
  /\ fileMapRef[q].lastModified = dbVideos[old].lastModified

\* the user metadata of a record nobody has touched
DefaultUserFields(q) ==
  [ rating |-> 0, tags |-> << >>, hearted |-> FALSE, hidden |-> isJpgName(FileName(q)),
    deleted |-> FALSE, title |-> Undefined, currentTime |-> UndefinedNum ]

\* C20: a pass that finds a file renamed creates a record for the new path
\* with an identifier never used before and default metadata, and leaves the
\* record of the old path in the store, marked not found, its metadata as the
\* pass read it or as stored before the write; the two are not merged
C20_RenameMakesNewRecord ==
  [][ScanWrites =>
       \A old \in DOMAIN dbVideos : \A q \in DOMAIN fileMapRef :
         Renamed(old, q) =>
           /\ dbVideos'[old].notFound
           /\ dbVideos'[old].relativePath = dbVideos[old].relativePath
           /\ userFieldsOf(dbVideos'[old]) \in
                { userFieldsOf(existingVideos[old]), userFieldsOf(dbVideos[old]) }
           /\ \E new \in (DOMAIN dbVideos') \ (DOMAIN dbVideos) :
                /\ new >= nextId
                /\ dbVideos'[new].relativePath = q
                /\ ~dbVideos'[new].notFound
                /\ userFieldsOf(dbVideos'[new]) = DefaultUserFields(q)
                /\ dbVideos'[new].seen = FALSE
                /\ dbVideos'[new].timesOpened = 0]_vars

\* the second pass has just written: the record of the old path, edited by
\* the user, is marked not found, and a later record holds a file of the same
\* size and date under another path
C20_RenamedWritten ==
  /\ scanPc \in {"saving", "loading"}
  /\ scansLeft = MaxScans - 2
  /\ \E old \in DOMAIN dbVideos : \E new \in DOMAIN dbVideos :
       /\ old < new
       /\ dbVideos[old].notFound
       /\ dbVideos[old].rating # 0
       /\ ~dbVideos[new].notFound
       /\ dbVideos[new].rating = 0
       /\ dbVideos[new].dateAdded > dbVideos[old].dateAdded
       /\ dbVideos[new].fileSize = dbVideos[old].fileSize
       /\ dbVideos[new].lastModified = dbVideos[old].lastModified
       /\ dbVideos[old].relativePath \notin DOMAIN fileMapRef

\* no two records of the store have the same relative path
uniquePaths(store) ==
  \A a \in DOMAIN store : \A b \in DOMAIN store :
    store[a].relativePath = store[b].relativePath => a = b

\* C21: in every state of the store no two records have the same relative
\* path, and a record is new to the store only by a sync pass, for a path the
\* pass observes and no stored record has
C21_RelativePathUnique ==
  [][/\ uniquePaths(dbVideos) /\ uniquePaths(dbVideos')
     /\ \A id \in (DOMAIN dbVideos') \ (DOMAIN dbVideos) :
          /\ ScanWrites
          /\ dbVideos'[id].relativePath \in DOMAIN fileMapRef
          /\ dbVideos'[id].relativePath \notin storedPaths(dbVideos)]_vars

\* a third pass has written: it observed again, next to a new path, a path whose
\* record was marked not found, and the store holds one record for each path
C21_ThirdPassWritten ==
  /\ scanPc \in {"saving", "loading"}
  /\ scansLeft = MaxScans - 3
  /\ DOMAIN fileMapRef = Paths
  /\ Cardinality(DOMAIN dbVideos) = NumPaths
  /\ \E id \in DOMAIN existingVideos :
       /\ existingVideos[id].notFound
       /\ existingVideos[id].relativePath \in DOMAIN fileMapRef
       /\ ~dbVideos[id].notFound

\* clearAllData is issued; handleResetDatabase resumes after it
ResetClears == reset.pc = "idle" /\ reset'.pc = "clearing"
ResetEnds == reset.pc = "clearing" /\ reset'.pc = "idle"

\* C22: no step of a sync pass, of a pipeline run, of an edit (the deleted flag
\* included), of an undo or of a redo takes a record identifier out of the
\* store; only the database reset does: its clearAllData empties the three
\* stores in one step, and the handler then empties the records in memory, the
\* playlist and both history stacks
C22_OnlyResetRemovesRecords ==
  [][/\ ~ResetClears => DOMAIN dbVideos \subseteq DOMAIN dbVideos'
     /\ ResetClears =>
          dbVideos' = << >> /\ dbThumbs' = << >> /\ dbTimeline' = << >>
     /\ ResetEnds =>
          /\ videos' = << >>
          /\ playlist' = << >>
          /\ undoStack' = << >>
          /\ redoStack' = << >>]_vars

\* the stores have just been cleared of a record that had a thumbnail and a
\* timeline strip and was flagged deleted by an edit; the playlist and both
\* stacks are still to be emptied
C22_ClearedWithHistory ==
  /\ reset.pc = "clearing"
  /\ dbVideos = << >> /\ dbThumbs = << >> /\ dbTimeline = << >>
  /\ nextStrip > 1
  /\ playlist # << >>
  /\ undoStack # << >>
  /\ redoStack # << >>
  /\ \E id \in DOMAIN videos : videos[id].description = "" /\ videos[id].deleted

\* the identifiers of a list of records
idsOf(list) == { list[i].id : i \in 1..Len(list) }

\* the records the pass read as a pass before it had left them, marked for
\* regeneration and not written by a pipeline run since, their file observed
LeftUnprocessed ==
  { id \in DOMAIN existingVideos :
      /\ existingVideos[id].description = DescGenerating
      /\ ~existingVideos[id].notFound
      /\ existingVideos[id].relativePath \in DOMAIN fileMapRef
      /\ existingVideos[id].lastModified =
           fileMapRef[existingVideos[id].relativePath].lastModified }

\* the record id is on the list of a pass that has written its plan, or on
\* the list of a run, in hand or still to come
Marked(id) ==
  \/ scanPc \in {"saving", "loading"} /\ id \in idsOf(videosForThumbGen)
  \/ \E r \in Runs :
       /\ pipe[r].pc \in {"probing", "writing"}
       /\ \E i \in pipe[r].idx..Len(pipe[r].list) : pipe[r].list[i].id = id

\* the probe of the record has been made and its result written
Rederived(id) ==
  /\ id \in DOMAIN dbVideos
  /\ dbVideos[id].description # DescGenerating

\* the part of C23 that holds: a record left unprocessed that has no persisted
\* thumbnail is marked again by the next pass that observes its file unchanged
C23_UnprocessedWithoutThumbnailMarkedAgain ==
  [][ScanWrites =>
       (LeftUnprocessed \ DOMAIN dbThumbs) \subseteq idsOf(videosForThumbGen')]_vars

\* C23: a record that a pass marked for regeneration and that no pipeline run
\* processed (the run cancelled, or the session ended between or during the
\* phases) is marked for regeneration again by the next pass that observes its
\* file unchanged and is handed to the pipeline with the list of that pass;
\* the run then probes the current file and writes the result, unless it is
\* cancelled or the session ends again
C23_UnprocessedMarkedAgain ==
  /\ [][/\ ScanWrites => LeftUnprocessed \subseteq idsOf(videosForThumbGen')
        /\ (scanPc = "loading" /\ scanPc' = "idle" /\ isFolderSelected'
              /\ ~cancelProcessingRef /\ videosForThumbGen # << >>) =>
             \E r \in Runs : pipe[r].pc = "idle" /\ pipe'[r].list = videosForThumbGen]_vars
  /\ \A id \in 1..NumPaths :
       Marked(id) ~> (Rederived(id) \/ cancelProcessingRef \/ DOMAIN fileMapRef = {})

\* a later pass has written its plan: it read a record as the pass before had
\* left it, never processed, and has it on its list for the pipeline
C23_MarkedAgainAfterCut ==
  /\ scanPc \in {"saving", "loading"}
  /\ scansLeft <= MaxRecoverScans - 2
  /\ LeftUnprocessed # {}
  /\ LeftUnprocessed \subseteq idsOf(videosForThumbGen)
  /\ \A id \in LeftUnprocessed : id \notin DOMAIN dbThumbs

\* what a handler that does nothing leaves
Untouched == [ undo |-> undoStack, redo |-> redoStack, videos |-> videos, store |-> dbVideos ]

\* C24: handleUndo with an empty undo stack and handleRedo with an empty redo
\* stack leave the store, the records in memory and both stacks as they are
C24_EmptyStackNoOp ==
  /\ undoStack = << >> => undoOutcome(undoStack, redoStack, videos, dbVideos) = Untouched
  /\ redoStack = << >> => redoOutcome(undoStack, redoStack, videos, dbVideos) = Untouched

\* an edit has been undone: nothing is left to undo while the redo stack holds
\* an entry, and the undo button can be pressed again
C24_NothingLeftToUndo ==
  /\ Quiescent
  /\ isFolderSelected
  /\ editsLeft > 0
  /\ undoStack = << >>
  /\ redoStack # << >>
  /\ commitLog.stage = 2

\* a single-record edit of record id is committed that leaves its saved
\* playback position above one second, the record not seen before
PositionCommitted(id) ==
  /\ commitLog'.op = "edit"
  /\ commitLog'.stage = 1
  /\ ~commitLog'.batch
  /\ commitLog'.ids = << id >>
  /\ editsLeft' = editsLeft - 1
  /\ ~videos[id].seen
  /\ videos'[id].currentTime > 1

\* C25: a single-record edit that sets the saved playback position above one
\* second on a record not seen sets seen too; the position and the flag are
\* written to the store together, and the call pushes one history entry, the
\* record as it was (old position, not seen), and no entry for the flag
C25_PositionMarksSeen ==
  [][\A id \in DOMAIN videos :
       PositionCommitted(id) =>
         /\ videos'[id].seen
         /\ dbVideos'[id] = videoMetadata(videos'[id])
         /\ dbVideos'[id].seen
         /\ dbVideos'[id].currentTime = videos'[id].currentTime
         /\ \A other \in (DOMAIN dbVideos) \ {id} : dbVideos'[other] = dbVideos[other]
         /\ undoStack' = Append(undoStack, << [videoId |-> id, state |-> videos[id]] >>)
         /\ redoStack' = << >>]_vars

\* the position of a record never played has been set to seven seconds
C25_FirstPositionSaved ==
  /\ commitLog.stage = 1
  /\ ~commitLog.batch
  /\ Len(commitLog.ids) = 1
  /\ commitLog.pre[commitLog.ids[1]].currentTime = UndefinedNum
  /\ ~commitLog.pre[commitLog.ids[1]].seen
  /\ videos[commitLog.ids[1]].currentTime = 7
  /\ videos[commitLog.ids[1]].seen
  /\ undoStack[Len(undoStack)][1].state.currentTime = UndefinedNum

\* a playlist file is imported
Imports == importLog'.count = importLog.count + 1

\* the elements of the imported array that name a record of the library, in
\* the order of the file
RECURSIVE knownIds(_, _)
knownIds(items, library) ==
  IF items = << >> THEN << >>
  ELSE (IF Head(items).value \in library THEN << Head(items).value >> ELSE << >>)
       \o knownIds(Tail(items), library)

\* the file is a JSON array whose elements are all strings
WellFormed(file) ==
  /\ file.parses
  /\ file.isArray
  /\ \A i \in 1..Len(file.items) : file.items[i].type = "string"

\* C26: importing a playlist that is an array of strings replaces the playlist
\* by the imported identifiers that name a record of the library, in their
\* imported order, the others dropped without an error message; importing a
\* file that cannot be parsed, is not an array or holds an element that is not
\* a string shows an error message and leaves the playlist as it was
C26_ImportValidatesPlaylist ==
  [][Imports =>
       IF WellFormed(importLog'.file)
       THEN /\ playlist' = knownIds(importLog'.file.items, DOMAIN videos)
            /\ importLog'.message \notin {MsgImportInvalid, MsgImportFailed}
       ELSE /\ playlist' = playlist
            /\ importLog'.message \in {MsgImportInvalid, MsgImportFailed}]_vars

\* a file naming the second record, an unknown identifier and the first record
\* has been imported over a playlist that held the first record only
C26_ImportedInOrder ==
  /\ importLog.count > 0
  /\ importLog.file.items = << JsonString(2), JsonString(9), JsonString(1) >>
  /\ importLog.before = << 1 >>
  /\ playlist = << 2, 1 >>

\* a file holding a string and a number has been refused, the playlist kept
C26_MalformedRefused ==
  /\ importLog.count > 0
  /\ importLog.file.items = << JsonString(1), JsonNumber(2) >>
  /\ importLog.message = MsgImportInvalid
  /\ playlist = << 2, 1 >>
  /\ importLog.before = playlist

\* the tag list ascends strictly: it is sorted and holds no tag twice
sortedTags(tags) == \A i \in 1..(Len(tags) - 1) : tags[i] < tags[i + 1]

\* the tag lists of the records in memory, in the store and in the two history
\* stacks are sorted and hold no tag twice
TagsSortedUnique ==
  /\ \A id \in DOMAIN videos : sortedTags(videos[id].tags)
  /\ \A id \in DOMAIN dbVideos : sortedTags(dbVideos[id].tags)
  /\ \A i \in 1..Len(undoStack) : \A j \in 1..Len(undoStack[i]) :
       sortedTags(undoStack[i][j].state.tags)
  /\ \A i \in 1..Len(redoStack) : \A j \in 1..Len(redoStack[i]) :
       sortedTags(redoStack[i][j].state.tags)

\* tags are applied on a card or in the player
AppliesTags == tagLog'.count = tagLog.count + 1

\* C27: in every state the tag list of every record is sorted and holds no tag
\* twice, whatever operation wrote it (tags applied or removed, a batch edit,
\* the tagging of duplicates and of transcoded files, the reset of the
\* duplicate tag, undo, redo); and the tags applied to a record are stored as
\* they are spelled, 'Art' and 'art' being two tags
C27_TagsSortedUnique ==
  /\ []TagsSortedUnique
  /\ [][AppliesTags =>
         /\ Range(videos'[tagLog'.id].tags) = tagLog'.finalTags
         /\ Range(dbVideos'[tagLog'.id].tags) = tagLog'.finalTags]_vars

\* a record carries 'Art', 'Duplicate' and 'art' at once, in that order
C27_BothCasesKept ==
  \E id \in DOMAIN dbVideos : dbVideos[id].tags = << TagArt, TagDuplicate, TagArtLower >>

\* the paths of the records on a regeneration list
listedPaths(list) == { list[i].relativePath : i \in 1..Len(list) }

\* the records the pass read for the path p
readFor(p) == { id \in DOMAIN existingVideos : existingVideos[id].relativePath = p }

\* the file at p is playable and (a) its record has no persisted thumbnail, or
\* (b) its record holds another lastModified than the file, or (c) it has no
\* record
Eligible(p) ==
  /\ isNativelyPlayable(FileName(p))
  /\ \/ \E id \in readFor(p) : id \notin DOMAIN dbThumbs
     \/ \E id \in readFor(p) : existingVideos[id].lastModified # fileMapRef[p].lastModified
     \/ readFor(p) = {}

\* the file at p is playable and its record was marked as not found
WasMissing(p) ==
  /\ isNativelyPlayable(FileName(p))
  /\ \E id \in readFor(p) : existingVideos[id].notFound

\* C28 as stated: a pass puts the record of an observed path on the
\* regeneration list if and only if the file is playable and its record has no
\* persisted thumbnail, or holds another lastModified, or does not exist
C28_RegenerationIff ==
  [][ScanWrites =>
       \A p \in DOMAIN fileMapRef :
         (p \in listedPaths(videosForThumbGen')) <=> Eligible(p)]_vars

\* C28: a pass puts the record of an observed path on the regeneration list if
\* and only if the file is playable and its record has no persisted
\* thumbnail, or holds another lastModified, or does not exist, or was marked
\* as not found
C28_RegenerationIffOrReobserved ==
  [][ScanWrites =>
       \A p \in DOMAIN fileMapRef :
         (p \in listedPaths(videosForThumbGen')) <=> (Eligible(p) \/ WasMissing(p))]_vars

\* a pass has listed a record it read as not found, whose thumbnail is
\* persisted and whose lastModified is that of the file
C28_ReobservedListed ==
  /\ scanPc \in {"saving", "loading"}
  /\ \E id \in DOMAIN existingVideos :
       /\ existingVideos[id].notFound
       /\ id \in DOMAIN dbThumbs
       /\ existingVideos[id].relativePath \in DOMAIN fileMapRef
       /\ existingVideos[id].lastModified
            = fileMapRef[existingVideos[id].relativePath].lastModified
       /\ existingVideos[id].relativePath \in listedPaths(videosForThumbGen)

\* the records a pass read that are stored as it read them, whose file is
\* observed, playable and of the stored lastModified, which are not marked as
\* not found and have no persisted thumbnail
Unrepaired ==
  { id \in (DOMAIN existingVideos) \cap (DOMAIN dbVideos) :
      /\ \A f \in DOMAIN dbVideos[id] : existingVideos[id][f] = dbVideos[id][f]
      /\ existingVideos[id].relativePath \in DOMAIN fileMapRef
      /\ isNativelyPlayable(FileName(existingVideos[id].relativePath))
      /\ existingVideos[id].lastModified
           = fileMapRef[existingVideos[id].relativePath].lastModified
      /\ ~existingVideos[id].notFound
      /\ id \notin DOMAIN dbThumbs }

\* C29: a pass that finds a playable record of unchanged lastModified, not
\* marked as not found and without a persisted thumbnail puts it on the
\* regeneration list and leaves every stored field of the record as it was
C29_RepairKeepsFields ==
  [][ScanWrites =>
       \A id \in Unrepaired :
         /\ dbVideos[id].relativePath \in listedPaths(videosForThumbGen')
         /\ dbVideos'[id] = dbVideos[id]]_vars

\* the part of C29 that holds: the record is put on the regeneration list and
\* every stored field but description and isPlayable is left as it was
C29_RepairKeepsOtherFields ==
  [][ScanWrites =>
       \A id \in Unrepaired :
         /\ dbVideos[id].relativePath \in listedPaths(videosForThumbGen')
         /\ \A f \in (DOMAIN dbVideos[id]) \ {"description", "isPlayable"} :
              dbVideos'[id][f] = dbVideos[id][f]]_vars

\* the records the pass read whose path is not in the observed folder
Unobserved ==
  { id \in (DOMAIN existingVideos) \cap (DOMAIN dbVideos) :
      existingVideos[id].relativePath \notin DOMAIN fileMapRef }

\* the identifiers of the records a pass writes
plannedIds ==
  { scanPlan(fileMapRef, existingVideos, dbThumbs, nextId, now).batch[i].id :
      i \in 1..Len(scanPlan(fileMapRef, existingVideos, dbThumbs, nextId, now).batch) }

\* C30: a pass changes of a stored record whose path it does not observe only
\* notFound, to TRUE, its other fields being left as the pass read them or as
\* stored before the write; a record already marked as not found and still
\* unobserved is not among the records the pass writes and stays as stored
C30_UnobservedOnlyMarked ==
  [][ScanWrites =>
       \A id \in Unobserved :
         IF existingVideos[id].notFound
         THEN /\ id \notin plannedIds
              /\ dbVideos'[id] = dbVideos[id]
         ELSE /\ id \in plannedIds
              /\ dbVideos'[id] \in
                   { [dbVideos[id] EXCEPT !.notFound = TRUE],
                     videoMetadata([existingVideos[id] EXCEPT !.notFound = TRUE]) }]_vars

\* a pass has just written its plan without the record of a path it does not
\* observe: an earlier pass had marked the record, which the user had rated
C30_StillMissingUntouched ==
  /\ scanPc \in {"saving", "loading"}
  /\ \E id \in Unobserved :
       /\ existingVideos[id].notFound
       /\ id \in DOMAIN beforeMissing
       /\ dbVideos[id].notFound
       /\ dbVideos[id].rating # 0
       /\ \E other \in DOMAIN dbVideos : other # id /\ ~dbVideos[other].notFound

\* a set of a key that is cached
Overwrites(k, v) == scrubCacheSet(k, v) /\ k \in cacheKeys(scrubCache)

\* C40: set(id, seq) on an id that is already cached replaces the value of
\* that entry and removes no other entry, whatever the size of the cache,
\* also when it holds maxSize entries
C40_OverwriteKeepsOthers ==
  [][\A k \in KeysInUse(scrubCache) : \A v \in Strips :
       Overwrites(k, v) =>
         /\ cacheKeys(scrubCache') = cacheKeys(scrubCache)
         /\ mapGet(scrubCache', k) = v]_vars

\* the part of C40 that holds: below maxSize entries an overwrite keeps every
\* other entry, its value and its place
C40_OverwriteBelowCapacityKeepsOthers ==
  [][\A k \in KeysInUse(scrubCache) : \A v \in Strips :
       (Overwrites(k, v) /\ Len(scrubCache) < maxSize) =>
         scrubCache' = [scrubCache EXCEPT ![cacheIndex(scrubCache, k)].value = v]]_vars

\* a step that changes the status filters, the tag filter, the search query
\* or the page
ViewChanges == statusFilters' # statusFilters \/ view' # view

\* C33: whenever a status filter, the tag filter, the search query or the
\* page changes, the preview cache is emptied, so that at any time it holds
\* only entries inserted since the last such change
C33_ViewChangeEmptiesCache ==
  /\ [](cacheKeys(scrubCache) \subseteq cacheLog.since)
  /\ [][ViewChanges => scrubCache' = << >>]_vars

\* the second page is shown, the change to it has dropped two entries and one
\* has been inserted since
C33_RefilledOnSecondPage ==
  /\ view.currentPage = 2
  /\ cacheLog.cleared = 2
  /\ Len(scrubCache) = 1

\* the extension of a name: what follows its last dot, the dot included, in
\* lower case; << >> for a name without a dot
extensionOf(name) ==
  IF ~includes(name, ".") THEN << >>
  ELSE LET dot == CHOOSE i \in 1..Len(name) :
                    name[i] = "." /\ \A j \in (i+1)..Len(name) : name[j] # "."
       IN  toLowerCase(SubSeq(name, dot, Len(name)))

\* the stored record of an observed path
recordAt(store, p) == store[CHOOSE id \in DOMAIN store : store[id].relativePath = p]

\* the observed paths no record was read for
NewlyObserved ==
  { p \in DOMAIN fileMapRef : \A id \in DOMAIN existingVideos : existingVideos[id].relativePath # p }

\* C31: a pass stores a record for every file it observes; the record of a
\* newly observed file is playable iff its extension is .mp4 or .ogv or its
\* name has no extension, and hidden iff its extension is .jpg, a .jpg being
\* stored non-playable
C31_ClassifiedByName ==
  [][ScanWrites =>
       /\ \A p \in DOMAIN fileMapRef : \E id \in DOMAIN dbVideos' : dbVideos'[id].relativePath = p
       /\ \A p \in NewlyObserved :
            LET ext == extensionOf(FileName(p))
                stored == recordAt(dbVideos', p)
            IN  /\ stored.isPlayable =
                     (ext \in { << >>, <<".", "m", "p", "4">>, <<".", "o", "g", "v">> })
                /\ stored.hidden = (ext = <<".", "j", "p", "g">>)
                /\ ext = <<".", "j", "p", "g">> => ~stored.isPlayable]_vars

\* a pass has stored the five files of a folder: three playable, c.mkv and
\* b.JPG not playable, b.JPG alone hidden
C31_FiveFilesStored ==
  /\ scanPc = "saving"
  /\ DOMAIN fileMapRef = NamedPaths
  /\ { dbVideos[id].relativePath : id \in { i \in DOMAIN dbVideos : dbVideos[i].isPlayable } } = {1, 4, 6}
  /\ { dbVideos[id].relativePath : id \in { i \in DOMAIN dbVideos : dbVideos[i].hidden } } = {2}
  /\ Cardinality(DOMAIN dbVideos) = 5

\* a step of run r of the pipeline, its start aside
RunSteps(r) == pipe[r].pc # "idle" /\ pipe'[r] # pipe[r]

\* C32: a pipeline run sets the records in memory once, in its last step, to
\* what it read from the store after the write of every record it probed,
\* whether it went through its list or was cancelled; no earlier step of the
\* run changes the records in memory
C32_RereadOncePerRun ==
  [][\A r \in Runs :
       /\ (RunSteps(r) /\ pipe[r].pc # "reloading") => videos' = videos
       /\ (RunSteps(r) /\ pipe'[r].pc = "reloading") =>
            /\ pipe'[r].loaded = getAllVideos(dbVideos')
            /\ pipeLog'.started[r] \subseteq pipeLog'.written[r]
       /\ (RunSteps(r) /\ pipe[r].pc = "reloading") =>
            /\ pipe'[r].pc = "idle"
            /\ videos' = pipe[r].loaded
       /\ (RunSteps(r) /\ pipe'[r].pc = "idle") => pipe[r].pc = "reloading"]_vars

\* a cancelled run that has written a record reads the library, the records
\* in memory still being those of before the run
C32_CancelledRunRereads ==
  \E r \in Runs :
    /\ pipe[r].pc = "reloading"
    /\ r \in pipeLog.cancelled
    /\ pipeLog.written[r] # {}
    /\ Len(pipe[r].list) > Cardinality(pipeLog.written[r])
    /\ videos # pipe[r].loaded

\* a pass ends without handing a list to the pipeline
PassEnds == scanPc # "idle" /\ scanPc' = "idle" /\ pipe' = pipe

\* a pass starts, a run of the pipeline starts
PassStarts == scanPc = "idle" /\ scanPc' # "idle"
RunStarts(r) == pipe[r].pc = "idle" /\ pipe'[r].pc # "idle"

\* C34: every pass and every pipeline run ends with isProcessing false, also
\* when a probe yields no image or the batch write is rejected; every run
\* starts with the cancellation flag cleared; and a pass that has written its
\* plan and a run under way end, the store answering every request
C34_RunsEndIndicatorOff ==
  /\ [][/\ PassEnds => ~isProcessing'
        /\ \A r \in Runs : RunEnds(r) => ~isProcessing'
        /\ PassStarts => ~cancelProcessingRef'
        /\ \A r \in Runs : RunStarts(r) => ~cancelProcessingRef']_vars
  /\ (scanPc \in {"saving", "loading"} \/ \E r \in Runs : pipe[r].pc # "idle")
       ~> (Quiescent \/ scanPc = "reading")

\* the part of C34 that holds: the runs of the pipeline end with isProcessing
\* false and the flag cleared whatever the probes yield, every pass and run
\* starts with the flag cleared, and what is under way ends
C34_PipelineRunsEndIndicatorOff ==
  /\ [][/\ \A r \in Runs : RunEnds(r) => ~isProcessing' /\ ~cancelProcessingRef'
        /\ PassStarts => ~cancelProcessingRef'
        /\ \A r \in Runs : RunStarts(r) => ~cancelProcessingRef']_vars
  /\ (scanPc \in {"saving", "loading"} \/ \E r \in Runs : pipe[r].pc # "idle")
       ~> (Quiescent \/ scanPc = "reading")

\* the pass resumes after its reads with the cancellation flag set
CancelledPassResumes == scanPc = "reading" /\ cancelProcessingRef /\ scanPc' # scanPc

\* C37: a pass cancelled before its batch write ends there and persists
\* nothing: the records, the thumbnails and the strips of the store are what
\* they were, no record is created, updated or marked, and none is handed to
\* the pipeline
C37_CancelledPassPersistsNothing ==
  [][CancelledPassResumes =>
       /\ scanPc' = "idle"
       /\ dbVideos' = dbVideos
       /\ dbThumbs' = dbThumbs
       /\ dbTimeline' = dbTimeline
       /\ videosForThumbGen' = << >>
       /\ pipe' = pipe]_vars

\* a cancelled pass has ended: the folder it observed holds a file without a
\* record and lacks the file of a record that is not marked
C37_CancelledWithWorkToDo ==
  /\ Quiescent
  /\ cancelProcessingRef
  /\ \E p \in DOMAIN fileMapRef : \A id \in DOMAIN dbVideos : dbVideos[id].relativePath # p
  /\ \E id \in DOMAIN dbVideos :
       dbVideos[id].relativePath \notin DOMAIN fileMapRef /\ ~dbVideos[id].notFound

\* the write of a commit, of an undo or of a redo is rejected
HistoryWriteFails == txLog'.count = txLog.count + 1

\* C35: when the write of a commit, an undo or a redo fails, the undo stack,
\* the redo stack and the records in memory are what they were before the
\* operation, as is the store
C35_FailedWriteNoEffect ==
  [][HistoryWriteFails =>
       /\ undoStack' = undoStack
       /\ redoStack' = redoStack
       /\ videos' = videos
       /\ dbVideos' = dbVideos]_vars

\* the part of C35 that holds: the records in memory and the store are what
\* they were, and so are the stacks when the commit is one of batch-edit mode
C35_FailedWriteKeepsRecords ==
  [][HistoryWriteFails =>
       /\ videos' = videos
       /\ dbVideos' = dbVideos
       /\ (commitLog'.op = "edit" /\ isBatchEditMode) =>
            undoStack' = undoStack /\ redoStack' = redoStack]_vars

\* undo or redo takes the entry of the last commit
UndoesLastCommit == editLog'.stage \in {2, 3} /\ editLog'.stage # editLog.stage

\* the fields of record id the last commit changed
changedByEdit(id) == IF id \in DOMAIN editLog.changed THEN editLog.changed[id] ELSE {}

\* C36: undo and redo change only what the undone or redone edit changed:
\* every other field of every record, in memory and in the store, is after
\* the step what it was before, whatever a pass, a pipeline run, a duration
\* scan or a bulk operation has written to it since the commit
C36_UndoChangesOnlyTheEdit ==
  [][UndoesLastCommit =>
       \A id \in DOMAIN dbVideos : \A f \in DOMAIN dbVideos[id] :
         f \notin changedByEdit(id) =>
           /\ dbVideos'[id][f] = dbVideos[id][f]
           /\ id \in DOMAIN videos => videos'[id][f] = videos[id][f]]_vars

\* the part of C36 that holds: when the store holds the records as the last
\* commit left them, undo changes the fields that commit changed and no other
C36_UndoRightAfterCommit ==
  [][(UndoesLastCommit /\ commitLog.stage = 1 /\ dbVideos = commitLog.postDb) =>
       \A id \in DOMAIN dbVideos : \A f \in DOMAIN dbVideos[id] :
         f \notin changedByEdit(id) =>
           /\ dbVideos'[id][f] = dbVideos[id][f]
           /\ id \in DOMAIN videos => videos'[id][f] = videos[id][f]]_vars

\* the update differs from the record in fields excluded from propagation only
OnlyExcludedFields(previousState, updatedVideo) ==
  /\ updatedVideo # previousState
  /\ \A k \in (DOMAIN updatedVideo) \ batchExcludedKeys : updatedVideo[k] = previousState[k]

\* the records other than id are what they were, in memory and in the store
OthersUntouched(id) ==
  \A other \in (DOMAIN videos) \ {id} :
    /\ videos'[other] = videos[other]
    /\ dbVideos'[other] = dbVideos[other]

\* VideoCard.saveProgress: the record handed to onUpdate for a position
saveProgressUpdate(video, time) ==
  [video EXCEPT !.currentTime = time,
                !.seen = IF time > 1 /\ ~video.seen THEN TRUE ELSE @]

\* C38: in batch-edit mode an update of one record that changes only its
\* saved position, its timesOpened or a file-derived field changes no other
\* record and pushes no history entry; and the position of one record saved
\* from its card leaves the seen flag of every other record as it was
C38_ExcludedFieldsStayLocal ==
  [][\A id \in DOMAIN videos :
       /\ \A u \in CardUpdates(videos[id]) :
            (isBatchEditMode /\ OnlyExcludedFields(videos[id], u) /\ handleUpdateVideo(u)) =>
              /\ OthersUntouched(id)
              /\ undoStack' = undoStack
       /\ (isBatchEditMode /\ handleUpdateVideo(saveProgressUpdate(videos[id], 7))) =>
            \A other \in (DOMAIN videos) \ {id} : videos'[other].seen = videos[other].seen]_vars

\* the second half of C38 on its own: the position saved from the card
C38_PositionMarksOthersSeen ==
  [][\A id \in DOMAIN videos :
       (isBatchEditMode /\ handleUpdateVideo(saveProgressUpdate(videos[id], 7))) =>
         \A other \in (DOMAIN videos) \ {id} : videos'[other].seen = videos[other].seen]_vars

\* the part of C38 that holds: such an update of a record that is seen
\* already changes no record and pushes no history entry
C38_ExcludedFieldsOfSeenRecord ==
  [][\A id \in DOMAIN videos : \A u \in CardUpdates(videos[id]) :
       (isBatchEditMode /\ OnlyExcludedFields(videos[id], u) /\ videos[id].seen
          /\ handleUpdateVideo(u)) =>
         /\ videos' = videos
         /\ dbVideos' = dbVideos
         /\ undoStack' = undoStack]_vars

\* no sync pass, pipeline run or regeneration is awaiting the store or a probe
NothingInProgress == Quiescent /\ regen.pc = "idle" /\ reset.pc = "idle"

\* the records in memory are the records of the store, thumbnail aside
MemoryIsStore(mem, store) ==
  /\ DOMAIN mem = DOMAIN store
  /\ \A id \in DOMAIN mem :
       \A k \in (DOMAIN mem[id]) \ {"thumbnail"} : mem[id][k] = getAllVideos(store)[id][k]

\* C39: whenever no operation is in progress the record list in memory equals
\* the record collection of the store field for field, thumbnail aside, also
\* after a regeneration that failed: stated for the operations that begin and
\* end in one step (an edit, an undo, a redo, a regeneration that finds no
\* file), which taken at rest with memory equal to the store leave it equal
C39_MemoryEqualsStoreAtRest ==
  [][(NothingInProgress /\ MemoryIsStore(videos, dbVideos) /\ NothingInProgress') =>
       MemoryIsStore(videos', dbVideos')]_vars

\* the part of C39 that holds: after one pass and its pipeline run, and after
\* every edit, undo and redo that follows, memory equals the store at rest
C39_MemoryIsStoreWithoutRegeneration ==
  NothingInProgress => MemoryIsStore(videos, dbVideos)

====
